---- MODULE Spec2Model ----
(***************************************************************************)
(* Metadata-graph compiler and query executor of the MULTI-DB repository.   *)
(*                                                                         *)
(* Strings that the code normalises (labels, node ids) are sequences of    *)
(* one-character strings, so that lower() and replace(' ', '_') are        *)
(* computed character by character.  The literal prefixes "collection",    *)
(* "table", "field" are lower-case words without spaces; each is kept as   *)
(* one element, which lower()/replace() leave unchanged.                   *)
(*                                                                         *)
(* A MongoDB collection is a sequence of documents in insertion order.     *)
(* An absent key / None is the empty sequence NoneV (falsy in Python, like *)
(* the empty string) for string-valued keys and "" for word-valued keys.   *)
(***************************************************************************)
EXTENDS Integers, Sequences, FiniteSets, TLC

VARIABLES
    schemas,        \* what get_collection_schemas() returns: a sequence of sources
    nodes,          \* db[config.NODES_COLLECTION]
    edges,          \* db[config.EDGES_COLLECTION]
    cache,          \* MetadataManager._entity_node_cache  {entity_label: node_id}
    builds,         \* number of completed build_graph_from_schema calls
    lastSchemas,    \* history: the registry the latest build read
    prevSchemas,    \* history: the registry the build before the latest read
    prevNodes,      \* history: nodes collection when the latest build started
    prevEdges,      \* history: edges collection when the latest build started
    data,           \* the data collections: collection name -> sequence of documents
    query,          \* the query_details of the last retrieve_data call
    result,         \* what the last retrieve_data call returned
    build,          \* position and locals of a running build_graph_from_schema
    frame           \* position and locals of a running _retrieve_related_data

vars == <<schemas, nodes, edges, cache, builds, lastSchemas, prevSchemas, prevNodes, prevEdges,
          data, query, result, build, frame>>

-----------------------------------------------------------------------------
(* Bounds of the model *)

MaxEntities == 2     \* entity declarations in the registry
MaxFields == 2       \* field declarations per entity
MaxTotalFields == 3  \* field declarations in the registry
MaxBuilds == 2       \* build_graph_from_schema calls in one behaviour
MaxUuids == 2        \* distinct values uuid4() can return

-----------------------------------------------------------------------------
(* Strings *)

NoneV == <<>>

Range(s) == {s[i] : i \in DOMAIN s}

SeqsUpTo(S, n) == UNION {[1..k -> S] : k \in 0..n}

\* str.lower(), per character
LowerCh(c) ==
    CASE c = "A" -> "a"
      [] c = "B" -> "b"
      [] c = "C" -> "c"
      [] c = "T" -> "t"
      [] OTHER -> c

Lower(s) == [i \in 1..Len(s) |-> LowerCh(s[i])]

\* str.replace(' ', '_')
ReplaceSpace(s) == [i \in 1..Len(s) |-> IF s[i] = " " THEN "_" ELSE s[i]]

\* str.replace('.', '_')
ReplaceDot(s) == [i \in 1..Len(s) |-> IF s[i] = "." THEN "_" ELSE s[i]]

-----------------------------------------------------------------------------
(* graph_models.py *)

\* GraphNode.__init__: the id is node_id when given, else a default that ends in
\* the first 8 characters of a fresh uuid4(), here the element uuid.
GraphNode(node_id, node_type, label, properties, datasource, collection_name, uuid) ==
    LET id_label_part == ReplaceDot(ReplaceSpace(Lower(label)))
        default_id == <<node_type, "_">> \o id_label_part \o <<"_", uuid>>
    IN [id |-> IF node_id # NoneV THEN node_id ELSE default_id,
        type |-> node_type,
        label |-> label,
        properties |-> properties,
        datasource |-> datasource,
        collection_name |-> collection_name]

\* GraphEdge.__init__
GraphEdge(source_id, target_id, relation, on_field) ==
    [source |-> source_id, target |-> target_id, relation |-> relation,
     properties |-> [on_field |-> on_field]]

\* index of the first document a filter selects, 0 when it selects none;
\* matches[i] tells whether the filter selects the i-th document
FirstIndex(matches) ==
    IF \E i \in 1..Len(matches) : matches[i]
    THEN CHOOSE i \in 1..Len(matches) :
            /\ matches[i]
            /\ \A j \in 1..(i - 1) : ~matches[j]
    ELSE 0

\* GraphNode.save: update_one({"_id": id}, {"$set": to_dict()}, upsert=True).
\* to_dict() carries datasource and collection_name only when they are truthy,
\* so $set leaves a stored document's value of an omitted key in place.
GraphNode_save(coll, n) ==
    LET i == FirstIndex([j \in 1..Len(coll) |-> coll[j].id = n.id])
    IN IF i = 0
       THEN Append(coll, n)
       ELSE [coll EXCEPT ![i] =
                [id |-> n.id, type |-> n.type, label |-> n.label,
                 properties |-> n.properties,
                 datasource |-> IF n.datasource # "" THEN n.datasource ELSE @.datasource,
                 collection_name |-> IF n.collection_name # NoneV
                                     THEN n.collection_name ELSE @.collection_name]]

\* GraphEdge.save: update_one({source, target, relation}, {"$set": to_dict()}, upsert=True)
GraphEdge_save(coll, e) ==
    LET i == FirstIndex([j \in 1..Len(coll) |->
                            /\ coll[j].source = e.source
                            /\ coll[j].target = e.target
                            /\ coll[j].relation = e.relation])
    IN IF i = 0 THEN Append(coll, e) ELSE [coll EXCEPT ![i] = e]

-----------------------------------------------------------------------------
(* The schema registry (data_models.get_collection_schemas) *)

EntityLabels == { <<"a">>, <<"A">>, <<"a", "_", "b">>, <<"t">> }
FieldLabels == { <<"b">>, <<"c">>, <<"b", " ", "c">> }
GhostLabel == <<"g">>      \* a label no entity declares

\* a field declaration; a key the declaration omits reads as FALSE / NoneV
FieldDecl(label, pk, fk, references) ==
    [label |-> label, is_primary_key |-> pk, is_foreign_key |-> fk, references |-> references]

FieldDecls ==
    {FieldDecl(l, TRUE, FALSE, NoneV) : l \in FieldLabels}
    \cup {FieldDecl(l, FALSE, TRUE, r) : l \in FieldLabels, r \in {<<"a">>, GhostLabel}}

\* an entity of a relational source lists "columns", one of a document source "fields"
TableDecls ==
    {[type |-> "table", label |-> l, columns |-> fs, fields |-> <<>>] :
        l \in EntityLabels, fs \in SeqsUpTo(FieldDecls, MaxFields)}

ObjectDecls ==
    {[type |-> "json_objects", label |-> l, columns |-> <<>>, fields |-> fs] :
        l \in EntityLabels, fs \in SeqsUpTo(FieldDecls, MaxFields)}

\* student_multi_db/data_models.py declares the entities of its document source
\* with type "collection"
CollectionDecls ==
    {[type |-> "collection", label |-> l, columns |-> <<>>, fields |-> fs] :
        l \in EntityLabels, fs \in SeqsUpTo(FieldDecls, MaxFields)}

Source(source_name, source_type, entities) ==
    [source_name |-> source_name, source_type |-> source_type, entities |-> entities]

\* entity.get("columns", []) or entity.get("fields", [])
EntityFields(entity) == IF entity.columns # <<>> THEN entity.columns ELSE entity.fields

\* the entity declarations of a registry, in the order the build visits them
RECURSIVE AllEntities(_, _)
AllEntities(ss, i) ==
    IF i > Len(ss) THEN <<>> ELSE ss[i].entities \o AllEntities(ss, i + 1)

RECURSIVE CountFields(_, _)
CountFields(es, i) ==
    IF i > Len(es) THEN 0 ELSE Len(EntityFields(es[i])) + CountFields(es, i + 1)

\* the registries of two sources that hold at most n entities and m field
\* declarations, the first source not empty
IsRegistryOf(ss, tables, objects, n, m) ==
    \E k1 \in 1..n : \E k2 \in 0..(n - k1) :
        \E es1 \in [1..k1 -> tables] : \E es2 \in [1..k2 -> objects] :
            /\ CountFields(es1 \o es2, 1) <= m
            /\ ss = <<Source("UniversityDB", "relational", es1),
                      Source("UniversityActivities", "document", es2)>>

IsRegistry(ss, n, m) == IsRegistryOf(ss, TableDecls, ObjectDecls, n, m)

IsStudentRegistry(ss, n, m) == IsRegistryOf(ss, TableDecls, CollectionDecls, n, m)

-----------------------------------------------------------------------------
(* multidb_university_unified/metadata_manager.py *)

\* the entity id with a suffix that changes from one build to the next, as the
\* uuid suffix of GraphNode's default id does
EntityNodeIdPerBuild(entity_label) ==
    ReplaceSpace(Lower(<<"collection", "_">> \o entity_label \o <<"_", ToString(builds)>>))

\* node_id=f"{entity_node_type}_{entity_label}".lower().replace(' ', '_')
EntityNodeId(entity_label) ==
    ReplaceSpace(Lower(<<"collection", "_">> \o entity_label))

\* field_node_id = f"{entity_node.id}_{field_label}".lower().replace(' ', '_')
FieldNodeId(entity_node_id, field_label) ==
    ReplaceSpace(Lower(entity_node_id \o <<"_">> \o field_label))

\* field_props = {k: v for k, v in field.items() if k != "label"}
FieldProps(field) ==
    [is_primary_key |-> field.is_primary_key,
     is_foreign_key |-> field.is_foreign_key,
     references |-> field.references]

\* The state the build works on is a record st: the two collections (nodes, edges),
\* the label cache and the local list entity_nodes_to_process_fk (todo).

\* dict lookup self._entity_node_cache.get(label); the cache is a sequence of
\* [label, id] entries in which a later entry for a label replaces the earlier
CacheGet(c, label) ==
    IF \E i \in 1..Len(c) : c[i].label = label
    THEN c[CHOOSE i \in 1..Len(c) : c[i].label = label].id
    ELSE NoneV

CachePut(c, label, id) ==
    IF \E i \in 1..Len(c) : c[i].label = label
    THEN [i \in 1..Len(c) |-> IF c[i].label = label THEN [label |-> label, id |-> id] ELSE c[i]]
    ELSE Append(c, [label |-> label, id |-> id])

\* a clear_graph that resets the cache and leaves the two collections as they are
clear_graph_cache_only(st) == [st EXCEPT !.cache = <<>>]

\* clear_graph
clear_graph(st) == [st EXCEPT !.nodes = <<>>, !.edges = <<>>, !.cache = <<>>]

\* pass 1, the loop over the fields of one entity (lines 64-85)
RECURSIVE FieldLoop(_, _, _, _)
FieldLoop(st, entity_node_id, fields, i) ==
    IF i > Len(fields) THEN st
    ELSE LET field == fields[i]
             field_node == GraphNode(FieldNodeId(entity_node_id, field.label), "field",
                                     field.label, FieldProps(field), "", NoneV, "0")
             edge == GraphEdge(entity_node_id, field_node.id, "HAS_FIELD", NoneV)
             st1 == [st EXCEPT !.nodes = GraphNode_save(@, field_node)]
             st2 == [st1 EXCEPT !.edges = GraphEdge_save(@, edge)]
         IN FieldLoop(st2, entity_node_id, fields, i + 1)

\* pass 1, the loop over the entities of one source (lines 39-85)
RECURSIVE EntityLoop(_, _, _, _)
EntityLoop(st, source_schema, entities, i) ==
    IF i > Len(entities) THEN st
    ELSE LET entity == entities[i]
             entity_node == GraphNode(EntityNodeId(entity.label), "collection", entity.label,
                                [source_system_type |-> source_schema.source_type,
                                 original_entity_type |-> entity.type],
                                source_schema.source_name, entity.label, "0")
             st1 == [st EXCEPT !.nodes = GraphNode_save(@, entity_node),
                               !.cache = CachePut(@, entity.label, entity_node.id),
                               !.todo = Append(@, [entity_node |-> entity_node,
                                                   entity_schema |-> entity])]
             st2 == FieldLoop(st1, entity_node.id, EntityFields(entity), 1)
         IN EntityLoop(st2, source_schema, entities, i + 1)

\* pass 1 (lines 35-85)
RECURSIVE Pass1(_, _, _)
Pass1(st, ss, i) ==
    IF i > Len(ss) THEN st
    ELSE Pass1(EntityLoop(st, ss[i], ss[i].entities, 1), ss, i + 1)

\* pass 2 without the "if target_entity_node_id" test: the edge is saved with
\* whatever the cache lookup returned
FkStepUnchecked(st, entity_node, field) ==
    IF field.is_foreign_key /\ field.references # NoneV
    THEN [st EXCEPT !.edges = GraphEdge_save(@,
                GraphEdge(entity_node.id, CacheGet(st.cache, field.references),
                          "REFERENCES", field.label))]
    ELSE st

\* pass 2, one field (lines 93-110)
FkStep(st, entity_node, field) ==
    IF field.is_foreign_key /\ field.references # NoneV
    THEN LET target_entity_node_id == CacheGet(st.cache, field.references)
         IN IF target_entity_node_id # NoneV
            THEN [st EXCEPT !.edges = GraphEdge_save(@,
                        GraphEdge(entity_node.id, target_entity_node_id, "REFERENCES",
                                  field.label))]
            ELSE st
    ELSE st

RECURSIVE FkFieldLoop(_, _, _, _)
FkFieldLoop(st, entity_node, fields, i) ==
    IF i > Len(fields) THEN st
    ELSE FkFieldLoop(FkStep(st, entity_node, fields[i]), entity_node, fields, i + 1)

\* pass 2 (lines 89-110)
RECURSIVE Pass2(_, _)
Pass2(st, i) ==
    IF i > Len(st.todo) THEN st
    ELSE Pass2(FkFieldLoop(st, st.todo[i].entity_node,
                           EntityFields(st.todo[i].entity_schema), 1), i + 1)

\* build_graph_from_schema, from a store holding the collections ns and es
BuildGraph(ns, es, c, ss) ==
    LET st0 == clear_graph([nodes |-> ns, edges |-> es, cache |-> c, todo |-> <<>>])
    IN Pass2(Pass1(st0, ss, 1), 1)

-----------------------------------------------------------------------------
(* student_multi_db/metadata_manager.py and graph_models.py *)

Uuids == {ToString(u) : u \in 1..MaxUuids}

\* GraphNode.__init__ of student_multi_db
StudentGraphNode(node_id, node_type, label, properties, datasource, collection_name, uuid) ==
    LET default_id == <<node_type, "_">> \o ReplaceSpace(Lower(label)) \o <<"_", uuid>>
    IN [id |-> IF node_id # NoneV THEN node_id ELSE default_id,
        type |-> node_type,
        label |-> label,
        properties |-> properties,
        datasource |-> datasource,
        collection_name |-> collection_name]

\* field_node_id = f"{entity_type}_{entity_label}_{field_label}".lower().replace(' ', '_')
StudentFieldNodeId(entity_type, entity_label, field_label) ==
    ReplaceSpace(Lower(<<entity_type, "_">> \o entity_label \o <<"_">> \o field_label))

\* pass 1, the loop over the fields of one entity (lines 70-88)
RECURSIVE StudentFieldLoop(_, _, _, _, _)
StudentFieldLoop(st, entity_node, entity, fields, i) ==
    IF i > Len(fields) THEN st
    ELSE LET field == fields[i]
             field_node == StudentGraphNode(
                             StudentFieldNodeId(entity.type, entity.label, field.label),
                             IF entity.type = "table" THEN "column" ELSE "field",
                             field.label, FieldProps(field), "", NoneV, "0")
             edge == GraphEdge(entity_node.id, field_node.id,
                               IF entity.type = "table" THEN "HAS_COLUMN" ELSE "HAS_FIELD",
                               NoneV)
             st1 == [st EXCEPT !.nodes = GraphNode_save(@, field_node)]
             st2 == [st1 EXCEPT !.edges = GraphEdge_save(@, edge)]
         IN StudentFieldLoop(st2, entity_node, entity, fields, i + 1)

\* pass 1, the loop over the entities of one source (lines 48-88); the entity
\* node is built without node_id, so its id ends in the uuid drawn for it:
\* uuids[n] is what uuid4() returns for the n-th entity of the build
RECURSIVE StudentEntityLoop(_, _, _, _, _)
StudentEntityLoop(st, source_schema, entities, i, uuids) ==
    IF i > Len(entities) THEN st
    ELSE LET entity == entities[i]
             entity_node == StudentGraphNode(NoneV, entity.type, entity.label,
                                [source_type |-> source_schema.source_type],
                                source_schema.source_name, entity.label,
                                uuids[Len(st.todo) + 1])
             st1 == [st EXCEPT !.nodes = GraphNode_save(@, entity_node),
                               !.cache = CachePut(@, entity.label, entity_node.id),
                               !.todo = Append(@, [entity_node |-> entity_node,
                                                   entity_schema |-> entity])]
             st2 == StudentFieldLoop(st1, entity_node, entity, EntityFields(entity), 1)
         IN StudentEntityLoop(st2, source_schema, entities, i + 1, uuids)

RECURSIVE StudentPass1(_, _, _, _)
StudentPass1(st, ss, i, uuids) ==
    IF i > Len(ss) THEN st
    ELSE StudentPass1(StudentEntityLoop(st, ss[i], ss[i].entities, 1, uuids), ss, i + 1, uuids)

\* build_graph_from_schema of student_multi_db; its pass 2 (lines 94-110) is the
\* unified variant's
StudentBuildGraph(ns, es, c, ss, uuids) ==
    LET st0 == clear_graph([nodes |-> ns, edges |-> es, cache |-> c, todo |-> <<>>])
    IN Pass2(StudentPass1(st0, ss, 1, uuids), 1)

-----------------------------------------------------------------------------
(* The graph compiler as a state machine *)

Init ==
    /\ build = [pc |-> "idle"]
    /\ frame = [pc |-> "idle"]
    /\ IsRegistry(schemas, MaxEntities, MaxTotalFields)
    /\ nodes = <<>>
    /\ edges = <<>>
    /\ cache = <<>>
    /\ builds = 0
    /\ lastSchemas = <<>>
    /\ prevSchemas = <<>>
    /\ prevNodes = <<>>
    /\ prevEdges = <<>>
    /\ data = <<>>
    /\ query = <<>>
    /\ result = <<>>

\* MetadataManager.build_graph_from_schema
build_graph_from_schema ==
    /\ builds < MaxBuilds
    /\ LET st == BuildGraph(nodes, edges, cache, schemas)
       IN /\ nodes' = st.nodes
          /\ edges' = st.edges
          /\ cache' = st.cache
    /\ builds' = builds + 1
    /\ lastSchemas' = schemas
    /\ prevSchemas' = lastSchemas
    /\ prevNodes' = nodes
    /\ prevEdges' = edges
    /\ UNCHANGED <<schemas, data, query, result, build, frame>>

Reverse(s) == [i \in 1..Len(s) |-> s[Len(s) + 1 - i]]

\* An edit of data_models.py between two builds that only changes the order of
\* declaration: the sources are listed in the opposite order, or the entities
\* within each source are.
reorder_entities ==
    /\ builds = 1
    /\ schemas = lastSchemas
    /\ schemas' \in ({Reverse(schemas),
                      [i \in 1..Len(schemas) |->
                          [schemas[i] EXCEPT !.entities = Reverse(@)]]} \ {schemas})
    /\ UNCHANGED <<nodes, edges, cache, builds, lastSchemas, prevSchemas, prevNodes,
                   prevEdges, data, query, result, build, frame>>

Next ==
    \/ build_graph_from_schema
    \/ reorder_entities

Spec == Init /\ [][Next]_vars

-----------------------------------------------------------------------------
(* The graph compiler of student_multi_db as a state machine *)

InitStudent ==
    /\ build = [pc |-> "idle"]
    /\ frame = [pc |-> "idle"]
    /\ IsStudentRegistry(schemas, MaxEntities - 1, MaxFields)
    /\ nodes = <<>>
    /\ edges = <<>>
    /\ cache = <<>>
    /\ builds = 0
    /\ lastSchemas = <<>>
    /\ prevSchemas = <<>>
    /\ prevNodes = <<>>
    /\ prevEdges = <<>>
    /\ data = <<>>
    /\ query = <<>>
    /\ result = <<>>

\* MetadataManager.build_graph_from_schema of student_multi_db
student_build_graph_from_schema ==
    /\ builds < MaxBuilds
    /\ \E uuids \in [1..Len(AllEntities(schemas, 1)) -> Uuids] :
          LET st == StudentBuildGraph(nodes, edges, cache, schemas, uuids)
          IN /\ nodes' = st.nodes
             /\ edges' = st.edges
             /\ cache' = st.cache
    /\ builds' = builds + 1
    /\ lastSchemas' = schemas
    /\ prevSchemas' = lastSchemas
    /\ prevNodes' = nodes
    /\ prevEdges' = edges
    /\ UNCHANGED <<schemas, data, query, result, build, frame>>

\* An edit of data_models.py between two builds that adds one entity, at the end
\* of the last source.
declare_entity ==
    /\ builds >= 1
    /\ schemas = lastSchemas
    /\ Len(AllEntities(schemas, 1)) < MaxEntities
    /\ \E entity \in CollectionDecls :
          /\ CountFields(AllEntities(schemas, 1), 1) + Len(entity.fields) <= MaxFields
          /\ \A i \in 1..Len(AllEntities(schemas, 1)) :
                AllEntities(schemas, 1)[i].label # entity.label
          /\ schemas' = [schemas EXCEPT ![Len(schemas)].entities = Append(@, entity)]
    /\ UNCHANGED <<nodes, edges, cache, builds, lastSchemas, prevSchemas, prevNodes,
                   prevEdges, data, query, result, build, frame>>

NextStudent ==
    \/ student_build_graph_from_schema
    \/ declare_entity

SpecStudent == InitStudent /\ [][NextStudent]_vars

-----------------------------------------------------------------------------
(* The document store: collection.find(filter, projection) *)

IdKey == <<"_", "i", "d">>     \* the key "_id"

\* a stored value: a scalar, or an array of scalars
Scalar(v) == [scalar |-> v]
Array(s) == [array |-> s]
IsArray(x) == "array" \in DOMAIN x

\* the filter value {"$in": [values]}
In(values) == [in |-> values]
IsIn(x) == "in" \in DOMAIN x

\* a filter clause {key: value} with a scalar value selects the documents whose
\* key holds that value, or holds an array with an element equal to it; with
\* {"$in": values} the documents whose key holds one of the values, or an array
\* with an element among them
MatchesClause(doc, key, value) ==
    /\ key \in DOMAIN doc
    /\ IF IsIn(value)
       THEN \/ doc[key] \in value.in
            \/ /\ IsArray(doc[key])
               /\ \E i \in 1..Len(doc[key].array) : Scalar(doc[key].array[i]) \in value.in
       ELSE \/ doc[key] = value
            \/ /\ IsArray(doc[key])
               /\ \E i \in 1..Len(doc[key].array) : Scalar(doc[key].array[i]) = value

MatchesFilter(doc, filters) == \A key \in DOMAIN filters : MatchesClause(doc, key, filters[key])

\* a projection {key: 1, ...} keeps the named keys, and "_id" unless it says
\* "_id": 0; a projection that only excludes keeps every other key
ApplyProjection(doc, projection) ==
    LET inclusion == \E k \in DOMAIN projection : projection[k] = 1
        keep == IF inclusion
                THEN {k \in DOMAIN doc :
                        \/ k \in DOMAIN projection /\ projection[k] = 1
                        \/ k = IdKey /\ IdKey \notin DOMAIN projection}
                ELSE {k \in DOMAIN doc : k \notin DOMAIN projection}
    IN [k \in keep |-> doc[k]]

\* list(collection.find(filters, projection)): the matching documents, projected,
\* in the order the collection holds them
Find(coll, filters, projection) ==
    LET Match(doc) == MatchesFilter(doc, filters)
        found == SelectSeq(coll, Match)
    IN [j \in 1..Len(found) |-> ApplyProjection(found[j], projection)]

\* db[collection_name]: a collection nobody wrote to reads as empty
GetDataCollection(d, collection_name) ==
    IF collection_name \in DOMAIN d THEN d[collection_name] ELSE <<>>

-----------------------------------------------------------------------------
(* data_manager.py: retrieval from one entity *)

\* query_details.get("fields"): None, or a list of field names
NoFields == [given |-> FALSE, list |-> <<>>]
FieldList(list) == [given |-> TRUE, list |-> list]

\* what a retrieve_data call did: ok tells a list of records from None; reads
\* lists the data collections the call read, in order; store_raised tells that
\* the store raised on the last of these reads; raised tells that the call raised
\* to its caller, which the except clauses of retrieve_data and of the two
\* paths never let happen.
Outcome(ok, records, reads, store_raised) ==
    [ok |-> ok, records |-> records, reads |-> reads, store_raised |-> store_raised,
     raised |-> FALSE]

\* None, returned before any data collection is read
ReturnNone == Outcome(FALSE, <<>>, <<>>, FALSE)

\* a lookup that falls back to the first collection node when the label is unknown
find_entity_node_or_any(ns, label) ==
    LET found == FirstIndex([i \in 1..Len(ns) |->
                                ns[i].label = label /\ ns[i].type = "collection"])
    IN IF found # 0 THEN found
       ELSE FirstIndex([i \in 1..Len(ns) |-> ns[i].type = "collection"])

\* DataManager.find_entity_node: find_one({"label": label, "type": "collection"}),
\* the index of the node found, 0 for None
find_entity_node(ns, label) ==
    FirstIndex([i \in 1..Len(ns) |-> ns[i].label = label /\ ns[i].type = "collection"])

\* DataManager.get_entity_fields: the labels of the nodes the HAS_FIELD edges of
\* the entity node lead to.  The code returns them as a list sorted by label; the
\* callers modelled here only read which labels are in it.
get_entity_fields(ns, es, entity_node_id) ==
    LET field_node_ids == {e.target : e \in {x \in Range(es) :
                              x.source = entity_node_id /\ x.relation = "HAS_FIELD"}}
    IN {n.label : n \in {x \in Range(ns) : x.id \in field_node_ids}}

\* a projection that never mentions "_id"
build_projection_without_id(requested_fields, all_schema_fields) ==
    LET fields_to_project == IF requested_fields.given THEN Range(requested_fields.list)
                             ELSE all_schema_fields
    IN [k \in fields_to_project |-> 1]

\* DataManager._build_projection
build_projection(requested_fields, all_schema_fields) ==
    LET fields_to_project == IF requested_fields.given THEN Range(requested_fields.list)
                             ELSE all_schema_fields
    IN IF fields_to_project = {}
       THEN [k \in {IdKey} |-> 0]
       ELSE [k \in fields_to_project \cup {IdKey} |->
                IF k = IdKey THEN (IF IdKey \in fields_to_project THEN 1 ELSE 0) ELSE 1]

\* DataManager._retrieve_single_entity
\* fails_at = k > 0: the store raises on the k-th read of a data collection.
\* The except clause turns the exception into None.
retrieve_single_entity(ns, es, d, query_details, fails_at) ==
    LET entity_label == query_details.entity
        requested_fields == query_details.fields
        filters == query_details.filters
        i == find_entity_node(ns, entity_label)
    IN IF i = 0 THEN ReturnNone
       ELSE IF ns[i].collection_name = NoneV THEN ReturnNone
       ELSE LET data_collection == GetDataCollection(d, ns[i].collection_name)
                metadata_headers == get_entity_fields(ns, es, ns[i].id)
                projection == build_projection(requested_fields, metadata_headers)
            IN IF fails_at = 1
               THEN Outcome(FALSE, <<>>, <<ns[i].collection_name>>, TRUE)
               ELSE Outcome(TRUE, Find(data_collection, filters, projection),
                            <<ns[i].collection_name>>, FALSE)

-----------------------------------------------------------------------------
(* data_manager.py: link resolution *)

\* DataManager._find_primary_key_field_by_label: the label of the first stored
\* node, among the targets of the entity's HAS_FIELD edges, whose properties say
\* is_primary_key; NoneV for None
find_primary_key_field_by_label(ns, es, entity_label) ==
    LET i == find_entity_node(ns, entity_label)
    IN IF i = 0 THEN NoneV
       ELSE LET field_node_ids == {e.target : e \in {x \in Range(es) :
                                      x.source = ns[i].id /\ x.relation = "HAS_FIELD"}}
                k == FirstIndex([j \in 1..Len(ns) |->
                        /\ ns[j].id \in field_node_ids
                        /\ "is_primary_key" \in DOMAIN ns[j].properties
                        /\ ns[j].properties.is_primary_key])
            IN IF field_node_ids = {} \/ k = 0 THEN NoneV ELSE ns[k].label

\* DataManager._find_primary_key_field
find_primary_key_field(ns, es, entity_node_id) ==
    LET i == FirstIndex([j \in 1..Len(ns) |-> ns[j].id = entity_node_id])
    IN IF i = 0 THEN NoneV ELSE find_primary_key_field_by_label(ns, es, ns[i].label)

\* a relations entry of a get_related query; direction "" when the key is missing
Hop(target_entity, direction) ==
    [target_entity |-> target_entity, relation |-> "REFERENCES", direction |-> direction]

\* what _get_relationship_link_fields returns: None (resolved = FALSE), or the
\* one-element lists start_entity_link_fields and target_entity_link_fields
NoLink == [resolved |-> FALSE, start_field |-> NoneV, target_field |-> NoneV,
           is_array |-> FALSE]
Link(start_field, target_field, is_array) ==
    [resolved |-> TRUE, start_field |-> start_field, target_field |-> target_field,
     is_array |-> is_array]

\* a link resolution that reads the foreign key from the field nodes
\* (properties.references) instead of the REFERENCES edges
get_relationship_link_fields_from_nodes(ns, es, start_node_id, rel_info) ==
    LET t == find_entity_node(ns, rel_info.target_entity)
        s == FirstIndex([j \in 1..Len(ns) |-> ns[j].id = start_node_id])
        Declares(j, holder, other) ==
            /\ ns[j].type = "field"
            /\ ns[j].id = FieldNodeId(ns[holder].id, ns[j].label)
            /\ ns[j].properties.is_foreign_key
            /\ ns[j].properties.references = ns[other].label
        out == FirstIndex([j \in 1..Len(ns) |-> Declares(j, s, t)])
        in == FirstIndex([j \in 1..Len(ns) |-> Declares(j, t, s)])
        holder == IF out # 0 THEN t ELSE s
        pk_field_name == find_primary_key_field(ns, es, ns[holder].id)
    IN IF s = 0 \/ t = 0 \/ (out = 0 /\ in = 0) THEN NoLink
       ELSE IF pk_field_name = NoneV THEN NoLink
       ELSE IF out # 0 THEN Link(ns[out].label, pk_field_name, FALSE)
       ELSE Link(pk_field_name, ns[in].label, FALSE)

\* DataManager._get_relationship_link_fields.  A field declaration of the model
\* carries no data_type, so the foreign-key field node's data_type reads as "" and
\* is_array is False.
get_relationship_link_fields(ns, es, start_node_id, rel_info) ==
    IF start_node_id = NoneV \/ rel_info.direction = "" THEN NoLink
    ELSE LET t == find_entity_node(ns, rel_info.target_entity)
         IN IF t = 0 THEN NoLink
            ELSE LET target_node_id == ns[t].id
                     k == FirstIndex([j \in 1..Len(es) |->
                             /\ es[j].relation = rel_info.relation
                             /\ \/ es[j].source = start_node_id /\ es[j].target = target_node_id
                                \/ es[j].source = target_node_id /\ es[j].target = start_node_id])
                 IN IF k = 0 THEN NoLink
                    ELSE LET fk_field_name == es[k].properties.on_field
                             fk_holder_node_id == es[k].source
                             pk_holder_node_id == es[k].target
                             pk_field_name == find_primary_key_field(ns, es, pk_holder_node_id)
                             is_array == FALSE
                         IN IF fk_field_name = NoneV \/ pk_field_name = NoneV THEN NoLink
                            ELSE IF rel_info.direction = "out"
                            THEN IF start_node_id = fk_holder_node_id
                                 THEN Link(fk_field_name, pk_field_name, is_array)
                                 ELSE Link(pk_field_name, fk_field_name, FALSE)
                            ELSE IF rel_info.direction = "in"
                            THEN IF start_node_id = pk_holder_node_id
                                 THEN Link(pk_field_name, fk_field_name, FALSE)
                                 ELSE Link(fk_field_name, pk_field_name, is_array)
                            ELSE NoLink

-----------------------------------------------------------------------------
(* data_manager.py: retrieval across related entities, the traversal *)

\* final_fields.get(entity_label): None when the key is missing
FinalFieldsGet(final_fields, entity_label) ==
    IF entity_label \in DOMAIN final_fields THEN final_fields[entity_label] ELSE NoFields

\* projection[field] = 1 for every field of link_fields
WithLinkFields(projection, link_fields) ==
    [k \in DOMAIN projection \cup link_fields |->
        IF k \in link_fields THEN 1 ELSE projection[k]]

\* processed_results[entity_label] = docs
PutResults(processed_results, entity_label, docs) ==
    [l \in DOMAIN processed_results \cup {entity_label} |->
        IF l = entity_label THEN docs ELSE processed_results[l]]

\* the values of link_field in docs (a missing key reads as None and is skipped)
LinkValues(docs, link_field) ==
    {docs[j][link_field] : j \in {x \in 1..Len(docs) : link_field \in DOMAIN docs[x]}}

\* the hop ends without a read: processed_results[target] = [], and the traversal
\* goes on from the target with the given node id
SkipHop(tr, target_entity_label, node_id) ==
    [tr EXCEPT !.processed_results = PutResults(@, target_entity_label, <<>>),
               !.current_entity_label = target_entity_label,
               !.current_entity_node_id = node_id]

\* _retrieve_related_data, one iteration of the traversal loop (lines 508-536).
\* tr.error: an exception was raised (the store raised, or a list was used as a
\* set element), which ends the call.
TraverseHop(ns, es, d, relations, final_fields, tr, i, fails_at) ==
    LET rel_step == relations[i]
        target_entity_label == rel_step.target_entity
        t == find_entity_node(ns, target_entity_label)
    IN IF tr.current_entity_node_id = NoneV
       THEN [tr EXCEPT !.processed_results = PutResults(@, target_entity_label, <<>>),
                       !.current_entity_label = target_entity_label]
       ELSE IF t = 0 \/ ns[t].collection_name = NoneV
       THEN SkipHop(tr, target_entity_label, NoneV)
       ELSE
       LET target_node_id == ns[t].id
           link_info == get_relationship_link_fields(ns, es, tr.current_entity_node_id, rel_step)
           current_docs == IF tr.current_entity_label \in DOMAIN tr.processed_results
                           THEN tr.processed_results[tr.current_entity_label] ELSE <<>>
           link_values == LinkValues(current_docs, link_info.start_field)
       IN IF ~link_info.resolved THEN SkipHop(tr, target_entity_label, target_node_id)
          ELSE IF \E v \in link_values : IsArray(v) THEN [tr EXCEPT !.error = TRUE]
          ELSE IF link_values = {} THEN SkipHop(tr, target_entity_label, target_node_id)
          ELSE
          LET target_filter == [k \in {link_info.target_field} |-> In(link_values)]
              target_metadata_fields == get_entity_fields(ns, es, target_node_id)
              projection0 == build_projection(FinalFieldsGet(final_fields, target_entity_label),
                                              target_metadata_fields)
              next_link_info == IF i + 1 <= Len(relations)
                                THEN get_relationship_link_fields(ns, es, target_node_id,
                                                                  relations[i + 1])
                                ELSE NoLink
              target_projection ==
                  WithLinkFields(projection0,
                      {link_info.target_field} \cup
                      (IF next_link_info.resolved THEN {next_link_info.start_field} ELSE {}))
              reads == Append(tr.reads, ns[t].collection_name)
          IN IF Len(reads) = fails_at
             THEN [tr EXCEPT !.reads = reads, !.error = TRUE, !.store_raised = TRUE]
             ELSE [tr EXCEPT
                     !.reads = reads,
                     !.processed_results =
                         PutResults(@, target_entity_label,
                             Find(GetDataCollection(d, ns[t].collection_name),
                                  target_filter, target_projection)),
                     !.current_entity_label = target_entity_label,
                     !.current_entity_node_id = target_node_id]

\* the traversal loop
RECURSIVE Traverse(_, _, _, _, _, _, _, _)
Traverse(ns, es, d, relations, final_fields, tr, i, fails_at) ==
    IF i > Len(relations) \/ tr.error THEN tr
    ELSE Traverse(ns, es, d, relations, final_fields,
                  TraverseHop(ns, es, d, relations, final_fields, tr, i, fails_at),
                  i + 1, fails_at)

-----------------------------------------------------------------------------
(* data_manager.py: retrieval across related entities, the join *)

Null == [null |-> TRUE]      \* None as the value of a record key

\* f"{entity_label}.{field}"
PrefixedKey(entity_label, field) == entity_label \o <<".">> \o field

\* DataManager._get_fields_scope: the requested list, or every field of the entity
get_fields_scope(ns, es, final_fields, entity_label, entity_node_id) ==
    LET requested == FinalFieldsGet(final_fields, entity_label)
    IN IF requested.given THEN Range(requested.list)
       ELSE get_entity_fields(ns, es, entity_node_id)

\* DataManager._get_expected_headers.  "if not node: continue; node_id = node['_id']"
\* is one if statement, so node_id is never bound and the two calls
\* get_entity_fields(node_id) raise UnboundLocalError (raised = TRUE).
get_expected_headers(ns, final_fields, relations, start_entity_label) ==
    LET entities_in_query == {start_entity_label} \cup
                             {relations[j].target_entity : j \in 1..Len(relations)}
        found == {l \in entities_in_query : find_entity_node(ns, l) # 0}
        Unbound(l) == IF l \in DOMAIN final_fields THEN ~final_fields[l].given
                      ELSE DOMAIN final_fields = {}
        Scope(l) == IF l \in DOMAIN final_fields THEN Range(final_fields[l].list) ELSE {}
    IN [raised |-> \E l \in found : Unbound(l),
        headers |-> UNION {{PrefixedKey(l, f) : f \in Scope(l)} :
                              l \in {x \in found : ~Unbound(x)}}]

\* record[f"{entity_label}.{f}"] = doc[f] for the fields of scope (and the link
\* field) that doc holds
Prefixed(record, entity_label, doc, scope, link_field) ==
    LET fs == {f \in scope \cup (IF link_field = NoneV THEN {} ELSE {link_field}) :
                  f \in DOMAIN doc}
        new == {PrefixedKey(entity_label, f) : f \in fs}
        FieldOf(k) == CHOOSE f \in fs : PrefixedKey(entity_label, f) = k
    IN [k \in DOMAIN record \cup new |-> IF k \in new THEN doc[FieldOf(k)] ELSE record[k]]

\* the concatenation of the sequences of a sequence
RECURSIVE Flatten(_)
Flatten(ss) == IF ss = <<>> THEN <<>> ELSE Head(ss) \o Flatten(Tail(ss))

\* a join that pairs every record with every target document
JoinHopCartesian(joined, target_data, target_entity_label, current_link_field_prefixed, target_link_field, target_fields_scope, next_link_field) ==
    Flatten([j \in 1..Len(joined) |->
                [k \in 1..Len(target_data) |->
                    Prefixed(joined[j], target_entity_label, target_data[k],
                             target_fields_scope, next_link_field)]])

\* a join that goes through the target documents and extends, for each, the
\* records that link to it
JoinHopTargetMajor(joined, target_data, target_entity_label, current_link_field_prefixed, target_link_field, target_fields_scope, next_link_field) ==
    LET Matching(target_doc) ==
            SelectSeq(joined,
                LAMBDA current_record :
                    /\ current_link_field_prefixed \in DOMAIN current_record
                    /\ target_link_field \in DOMAIN target_doc
                    /\ target_doc[target_link_field]
                         = current_record[current_link_field_prefixed])
        Extended(target_doc) ==
            [j \in 1..Len(Matching(target_doc)) |->
                Prefixed(Matching(target_doc)[j], target_entity_label, target_doc,
                         target_fields_scope, next_link_field)]
    IN Flatten([k \in 1..Len(target_data) |-> Extended(target_data[k])])

\* one iteration of the join loop (lines 558-591) that does not break: the
\* records of joined, each extended with every target document whose
\* target_link_field holds the record's value of current_link_field_prefixed
JoinHop(joined, target_data, target_entity_label, current_link_field_prefixed, target_link_field, target_fields_scope, next_link_field) ==
    LET Matched(current_record) ==
            IF current_link_field_prefixed \in DOMAIN current_record
            THEN SelectSeq(target_data,
                     LAMBDA target_doc :
                         /\ target_link_field \in DOMAIN target_doc
                         /\ target_doc[target_link_field]
                              = current_record[current_link_field_prefixed])
            ELSE <<>>
        Extended(current_record) ==
            [j \in 1..Len(Matched(current_record)) |->
                Prefixed(current_record, target_entity_label, Matched(current_record)[j],
                         target_fields_scope, next_link_field)]
    IN Flatten([j \in 1..Len(joined) |-> Extended(joined[j])])

\* one iteration of the join loop (lines 558-591); js.done: the iteration has
\* reached a break
JoinStep(ns, es, relations, final_fields, processed_results, js, i) ==
    LET rel_step == relations[i]
        target_entity_label == rel_step.target_entity
        target_data == IF target_entity_label \in DOMAIN processed_results
                       THEN processed_results[target_entity_label] ELSE <<>>
        t == find_entity_node(ns, target_entity_label)
        link_info_join == get_relationship_link_fields(ns, es, js.last_entity_node_id, rel_step)
        next_link_info_join == IF i + 1 <= Len(relations)
                               THEN get_relationship_link_fields(ns, es, ns[t].id,
                                                                 relations[i + 1])
                               ELSE NoLink
        next_joined_results ==
            JoinHop(js.joined, target_data, target_entity_label,
                    PrefixedKey(js.last_entity_label, link_info_join.start_field),
                    link_info_join.target_field,
                    get_fields_scope(ns, es, final_fields, target_entity_label, ns[t].id),
                    IF next_link_info_join.resolved THEN next_link_info_join.start_field
                    ELSE NoneV)
    IN IF target_data = <<>> THEN [js EXCEPT !.joined = <<>>, !.done = TRUE]
       ELSE IF t = 0 THEN [js EXCEPT !.done = TRUE]
       ELSE IF ~link_info_join.resolved THEN [js EXCEPT !.joined = <<>>, !.done = TRUE]
       ELSE IF \E j \in 1..Len(target_data) :
                   /\ link_info_join.target_field \in DOMAIN target_data[j]
                   /\ IsArray(target_data[j][link_info_join.target_field])
       THEN [js EXCEPT !.error = TRUE, !.done = TRUE]
       ELSE [joined |-> next_joined_results,
             last_entity_label |-> target_entity_label,
             last_entity_node_id |-> ns[t].id,
             done |-> next_joined_results = <<>>,
             error |-> FALSE]

\* the join loop
RECURSIVE Join(_, _, _, _, _, _, _)
Join(ns, es, relations, final_fields, processed_results, js, i) ==
    IF i > Len(relations) \/ js.done THEN js
    ELSE Join(ns, es, relations, final_fields, processed_results,
              JoinStep(ns, es, relations, final_fields, processed_results, js, i), i + 1)

\* a cleaning that returns the joined records as they are
CleanResultsKeepAll(final_results, headers) == final_results

\* lines 596-601: every record cut down to the expected headers, a missing key
\* reading as None, and the records dropped whose values are all None
CleanResults(final_results, headers) ==
    LET Cleaned(record) == [h \in headers |-> IF h \in DOMAIN record THEN record[h] ELSE Null]
        cleaned == [j \in 1..Len(final_results) |-> Cleaned(final_results[j])]
    IN SelectSeq(cleaned, LAMBDA r : \E h \in DOMAIN r : r[h] # Null)

\* a start read that is never taken to be empty
NoStartingDataIgnored(current_data) == FALSE

\* line 500: "if not current_data: ...; return []"
NoStartingData(current_data) == current_data = <<>>

\* DataManager._retrieve_related_data
retrieve_related_data(ns, es, d, query_details, fails_at) ==
    LET start_entity_label == query_details.start_entity
        start_filters == query_details.start_filters
        relations == query_details.relations
        final_fields == query_details.final_fields
        s == find_entity_node(ns, start_entity_label)
    IN IF s = 0 \/ ns[s].collection_name = NoneV THEN ReturnNone
       ELSE
       LET start_collection_name == ns[s].collection_name
           start_node_id == ns[s].id
           start_metadata_fields == get_entity_fields(ns, es, start_node_id)
           first_link_info == IF relations # <<>>
                              THEN get_relationship_link_fields(ns, es, start_node_id,
                                                                relations[1])
                              ELSE NoLink
           start_projection ==
               WithLinkFields(build_projection(FinalFieldsGet(final_fields, start_entity_label),
                                               start_metadata_fields),
                              IF first_link_info.resolved THEN {first_link_info.start_field}
                              ELSE {})
           current_data == Find(GetDataCollection(d, start_collection_name),
                                start_filters, start_projection)
           tr == Traverse(ns, es, d, relations, final_fields,
                          [processed_results |-> [l \in {start_entity_label} |-> current_data],
                           current_entity_label |-> start_entity_label,
                           current_entity_node_id |-> start_node_id,
                           reads |-> <<start_collection_name>>,
                           error |-> FALSE,
                           store_raised |-> FALSE],
                          1, fails_at)
           expected_headers == get_expected_headers(ns, final_fields, relations,
                                                    start_entity_label)
           start_records ==
               [j \in 1..Len(tr.processed_results[start_entity_label]) |->
                   Prefixed(<<>>, start_entity_label,
                            tr.processed_results[start_entity_label][j],
                            get_fields_scope(ns, es, final_fields, start_entity_label,
                                             start_node_id),
                            first_link_info.start_field)]
           js == Join(ns, es, relations, final_fields, tr.processed_results,
                      [joined |-> SelectSeq(start_records, LAMBDA r : DOMAIN r # {}),
                       last_entity_label |-> start_entity_label,
                       last_entity_node_id |-> start_node_id,
                       done |-> FALSE,
                       error |-> FALSE],
                      1)
       IN IF relations # <<>> /\ ~first_link_info.resolved THEN ReturnNone
          ELSE IF fails_at = 1 THEN Outcome(FALSE, <<>>, <<start_collection_name>>, TRUE)
          ELSE IF NoStartingData(current_data)
          THEN Outcome(TRUE, <<>>, <<start_collection_name>>, FALSE)
          ELSE IF tr.error THEN Outcome(FALSE, <<>>, tr.reads, tr.store_raised)
          ELSE IF tr.processed_results[start_entity_label] = <<>>
          THEN Outcome(~expected_headers.raised, <<>>, tr.reads, FALSE)
          ELSE IF js.error \/ expected_headers.raised
          THEN Outcome(FALSE, <<>>, tr.reads, FALSE)
          ELSE Outcome(TRUE, CleanResults(js.joined, expected_headers.headers),
                       tr.reads, FALSE)

\* a dispatch that answers an unsupported action with the empty list
retrieve_data_silent(ns, es, d, query_details, fails_at) ==
    IF query_details.action = "get_entity"
    THEN retrieve_single_entity(ns, es, d, query_details, fails_at)
    ELSE IF query_details.action = "get_related"
    THEN retrieve_related_data(ns, es, d, query_details, fails_at)
    ELSE Outcome(TRUE, <<>>, <<>>, FALSE)

\* a DataManager that keeps the result of its last call and answers the next
\* call with it
retrieve_data_cached(ns, es, d, query_details, fails_at) ==
    IF "calls" \in DOMAIN result /\ result.calls > 0
    THEN Outcome(result.ok, result.records, result.reads, result.store_raised)
    ELSE IF query_details.action = "get_entity"
    THEN retrieve_single_entity(ns, es, d, query_details, fails_at)
    ELSE IF query_details.action = "get_related"
    THEN retrieve_related_data(ns, es, d, query_details, fails_at)
    ELSE ReturnNone

\* DataManager.retrieve_data
retrieve_data_result(ns, es, d, query_details, fails_at) ==
    IF query_details.action = "get_entity"
    THEN retrieve_single_entity(ns, es, d, query_details, fails_at)
    ELSE IF query_details.action = "get_related"
    THEN retrieve_related_data(ns, es, d, query_details, fails_at)
    ELSE ReturnNone

-----------------------------------------------------------------------------
(* The query executor as a state machine: a built graph, loaded data, queries *)

MaxDocs == 2         \* documents in a data collection

\* the registries queried: one source with the table "a" and up to MaxFields of
\* the columns b (primary key) and c (foreign key to a)
QueryColumns == {FieldDecl(<<"b">>, TRUE, FALSE, NoneV),
                 FieldDecl(<<"c">>, FALSE, TRUE, <<"a">>)}

QueryRegistries ==
    {<<Source("UniversityDB", "relational",
              <<[type |-> "table", label |-> <<"a">>, columns |-> cols, fields |-> <<>>]>>)>> :
        cols \in SeqsUpTo(QueryColumns, MaxFields)}

\* the values a stored document can hold under b and under c; NoneV: no such key
StoredB == {NoneV, Scalar(0), Scalar(1), Array(<<0, 1>>)}
StoredC == {NoneV, Scalar(0), Scalar(1)}

\* a stored document with the given "_id"
Document(id, b, c) ==
    LET keys == {IdKey} \cup (IF b = NoneV THEN {} ELSE {<<"b">>})
                        \cup (IF c = NoneV THEN {} ELSE {<<"c">>})
    IN [k \in keys |-> IF k = IdKey THEN Scalar(id) ELSE IF k = <<"b">> THEN b ELSE c]

\* the contents of a collection: documents in insertion order, "_id" unique
Collections ==
    UNION {{[j \in 1..n |-> Document(j, bs[j], cs[j])] :
               bs \in [1..n -> StoredB], cs \in [1..n -> StoredC]} : n \in 0..MaxDocs}

\* the query_details of get_entity: an entity label, equality filters on b and c,
\* and fields: None or a list of distinct names among "_id", b, c
QueryKeys == {IdKey, <<"b">>, <<"c">>}

QueryFilters == UNION {[keys -> {Scalar(0), Scalar(1)}] : keys \in SUBSET {<<"b">>, <<"c">>}}

QueryFieldLists ==
    {NoFields} \cup {FieldList(l) : l \in {s \in SeqsUpTo(QueryKeys, 2) :
                                             \A i, j \in 1..Len(s) : i # j => s[i] # s[j]}}

NoQuery == [action |-> "", entity |-> NoneV, filters |-> <<>>, fields |-> NoFields]

InitQuery ==
    /\ build = [pc |-> "idle"]
    /\ frame = [pc |-> "idle"]
    /\ schemas \in QueryRegistries
    /\ LET st == BuildGraph(<<>>, <<>>, <<>>, schemas)
       IN /\ nodes = st.nodes
          /\ edges = st.edges
          /\ cache = st.cache
    /\ builds = 1
    /\ lastSchemas = schemas
    /\ prevSchemas = <<>>
    /\ prevNodes = <<>>
    /\ prevEdges = <<>>
    /\ \E coll \in Collections : data = [name \in {<<"a">>} |-> coll]
    /\ query = NoQuery
    /\ result = ReturnNone

\* DataManager.retrieve_data with a get_entity query.  A call reads the graph and
\* the data and writes neither, so one call per behaviour shows every outcome.
retrieve_data ==
    /\ query = NoQuery
    /\ \E entity \in {<<"a">>, GhostLabel}, filters \in QueryFilters, fields \in QueryFieldLists :
          query' = [action |-> "get_entity", entity |-> entity,
                    filters |-> filters, fields |-> fields]
    /\ \E fails_at \in {0, 1} :
          result' = retrieve_data_result(nodes, edges, data, query', fails_at)
    /\ UNCHANGED <<schemas, nodes, edges, cache, builds, lastSchemas, prevSchemas,
                   prevNodes, prevEdges, data, build, frame>>

NextQuery == retrieve_data

SpecQuery == InitQuery /\ [][NextQuery]_vars

-----------------------------------------------------------------------------
(* The traversal queries as a state machine: a built graph, loaded data, queries *)

\* the registries traversed: the tables a (b), t (c, d) and u (b), where t.c is a
\* foreign key to a and t.d one to u.  In the variants a hop cannot be resolved:
\* t.c or t.d names an entity nobody declares (no REFERENCES edge), or u.b is not
\* declared as primary key.
RelatedRegistry(c_references, d_references, u_has_pk) ==
    <<Source("UniversityDB", "relational",
        <<[type |-> "table", label |-> <<"a">>, fields |-> <<>>,
           columns |-> <<FieldDecl(<<"b">>, TRUE, FALSE, NoneV)>>],
          [type |-> "table", label |-> <<"t">>, fields |-> <<>>,
           columns |-> <<FieldDecl(<<"c">>, FALSE, TRUE, c_references),
                         FieldDecl(<<"d">>, FALSE, TRUE, d_references)>>],
          [type |-> "table", label |-> <<"u">>, fields |-> <<>>,
           columns |-> <<FieldDecl(<<"b">>, u_has_pk, FALSE, NoneV)>>]>>)>>

RelatedRegistries ==
    {RelatedRegistry(<<"a">>, <<"u">>, TRUE),
     RelatedRegistry(GhostLabel, <<"u">>, TRUE),
     RelatedRegistry(<<"a">>, GhostLabel, TRUE),
     RelatedRegistry(<<"a">>, <<"u">>, FALSE)}

\* a stored document: "_id" and the given keys with scalar values
ScalarDocument(id, values) ==
    [k \in {IdKey} \cup DOMAIN values |-> IF k = IdKey THEN Scalar(id) ELSE Scalar(values[k])]

\* collection a as ingestion leaves it: up to MaxDocs documents, no two with the
\* same primary key b
CollectionsA ==
    UNION {{[j \in 1..n |-> ScalarDocument(j, [k \in {<<"b">>} |-> bs[j]])] :
               bs \in {x \in [1..n -> {0, 1}] : \A i, j \in 1..n : i # j => x[i] # x[j]}} :
           n \in 0..MaxDocs}

\* collection t (no primary key): up to MaxDocs documents, each with c, d or both
ValuesT == {[k \in {<<"c">>, <<"d">>} |-> 0],
            [k \in {<<"c">>, <<"d">>} |-> IF k = <<"c">> THEN 1 ELSE 0],
            [k \in {<<"c">>} |-> 0],
            [k \in {<<"d">>} |-> 0]}

CollectionsT ==
    UNION {{[j \in 1..n |-> ScalarDocument(j, vs[j])] : vs \in [1..n -> ValuesT]} :
           n \in 0..MaxDocs}

\* collection u: empty, or the document with b = 0
CollectionsU == {<<>>, <<ScalarDocument(1, [k \in {<<"b">>} |-> 0])>>}

\* the relations of a query: up to two hops
RelatedHops == {Hop(<<"t">>, "in"), Hop(<<"u">>, "out"), Hop(<<"a">>, "out"),
                Hop(GhostLabel, "out")}
RelatedPaths == SeqsUpTo(RelatedHops, 2)

\* the final_fields of a query
RelatedFinalFields ==
    {<<>>,
     [l \in {<<"a">>, <<"u">>} |-> FieldList(<<<<"b">>>>)],
     [l \in {<<"a">>, <<"t">>, <<"u">>} |->
        IF l = <<"t">> THEN FieldList(<<<<"d">>>>) ELSE FieldList(<<<<"b">>>>)],
     [l \in {<<"t">>} |-> FieldList(<<<<"c">>>>)],
     [l \in {<<"a">>, <<"t">>} |-> IF l = <<"a">> THEN NoFields ELSE FieldList(<<<<"c">>>>)],
     [l \in {<<"a">>, <<"t">>} |-> IF l = <<"a">> THEN FieldList(<<<<"b">>>>) ELSE NoFields]}

InitRelated ==
    /\ build = [pc |-> "idle"]
    /\ frame = [pc |-> "idle"]
    /\ schemas \in RelatedRegistries
    /\ LET st == BuildGraph(<<>>, <<>>, <<>>, schemas)
       IN /\ nodes = st.nodes
          /\ edges = st.edges
          /\ cache = st.cache
    /\ builds = 1
    /\ lastSchemas = schemas
    /\ prevSchemas = <<>>
    /\ prevNodes = <<>>
    /\ prevEdges = <<>>
    /\ \E ca \in CollectionsA, ct \in CollectionsT, cu \in CollectionsU :
          data = [name \in {<<"a">>, <<"t">>, <<"u">>} |->
                    IF name = <<"a">> THEN ca ELSE IF name = <<"t">> THEN ct ELSE cu]
    /\ query = NoQuery
    /\ result = ReturnNone

\* the get_related queries: a start entity, an optional filter on b, a path and
\* a final_fields
RelatedQueries ==
    {[action |-> "get_related", start_entity |-> start_entity,
      start_filters |-> start_filters, relations |-> relations,
      final_fields |-> final_fields] :
        start_entity \in {<<"a">>, <<"t">>, GhostLabel},
        start_filters \in {<<>>, [k \in {<<"b">>} |-> Scalar(0)]},
        relations \in RelatedPaths,
        final_fields \in RelatedFinalFields}

\* query_details.get("action") of a query that has no "action" key
NoAction == "None"

\* the actions retrieve_data has no branch for
OtherActions == {NoAction, "delete_entity", "get_entities", "GET_ENTITY"}

\* the get_entity queries on the same graph and data, and the queries whose
\* action is neither get_entity nor get_related
EntityQueries ==
    {[action |-> action, entity |-> entity, filters |-> filters, fields |-> fields] :
        action \in {"get_entity"} \cup OtherActions,
        entity \in {<<"a">>, <<"t">>, GhostLabel},
        filters \in {<<>>, [k \in {<<"b">>} |-> Scalar(0)]},
        fields \in {NoFields, FieldList(<<<<"b">>>>)}}

\* DataManager.retrieve_data with any of these queries.  A call reads the graph
\* and the data and writes neither, so one call per behaviour shows every outcome.
retrieve_data_call ==
    /\ query = NoQuery
    /\ \E query_details \in RelatedQueries \cup EntityQueries, fails_at \in {0, 1, 2} :
          /\ query' = query_details
          /\ result' = retrieve_data_result(nodes, edges, data, query_details, fails_at)
    /\ UNCHANGED <<schemas, nodes, edges, cache, builds, lastSchemas, prevSchemas,
                   prevNodes, prevEdges, data, build, frame>>

NextRelated == retrieve_data_call

SpecRelated == InitRelated /\ [][NextRelated]_vars

-----------------------------------------------------------------------------
(* base/query_engine.py: the filter of query_across_graphs *)

MaxInt == 1          \* the integers of records and filters are -MaxInt..MaxInt

\* a filter value that is a dict with the one item op: op_val
Operator(op, op_val) == [op |-> op, op_val |-> op_val]

\* isinstance(value, dict)
IsOperator(value) == "op" \in DOMAIN value

\* data.get(key)
DataGet(record, key) == IF key \in DOMAIN record THEN record[key] ELSE Null

\* node_val and op_val can be ordered: both are numbers
Comparable(node_val, op_val) == "scalar" \in DOMAIN node_val /\ op_val \in Int

\* an evaluation whose operators are not guarded against None
evaluate_filter_unguarded(record, key, value) ==
    LET node_val == DataGet(record, key)
    IN IF IsOperator(value)
       THEN IF value.op \in {"$gt", "$lt", "$gte", "$lte"} /\ ~Comparable(node_val, value.op_val)
            THEN [matched |-> FALSE, raised |-> FALSE]
            ELSE [matched |->
                    CASE value.op = "$gt" -> node_val.scalar > value.op_val
                      [] value.op = "$lt" -> node_val.scalar < value.op_val
                      [] value.op = "$gte" -> node_val.scalar >= value.op_val
                      [] value.op = "$lte" -> node_val.scalar <= value.op_val
                      [] value.op = "$ne" -> node_val # Scalar(value.op_val)
                      [] value.op = "$exists" -> \/ value.op_val /\ node_val # Null
                                                 \/ ~value.op_val /\ node_val = Null
                      [] OTHER -> FALSE,
                  raised |-> FALSE]
       ELSE [matched |-> node_val = value, raised |-> FALSE]

\* QueryEngine._evaluate_filter: what it returns, or that it raised (the
\* TypeError of an ordering between values that are not both numbers)
evaluate_filter(record, key, value) ==
    LET node_val == DataGet(record, key)
    IN IF IsOperator(value)
       THEN IF node_val = Null /\ value.op # "$exists"
            THEN [matched |-> FALSE, raised |-> FALSE]
            ELSE IF value.op \in {"$gt", "$lt", "$gte", "$lte"} /\ ~Comparable(node_val, value.op_val)
            THEN [matched |-> FALSE, raised |-> TRUE]
            ELSE [matched |->
                    CASE value.op = "$gt" -> node_val.scalar > value.op_val
                      [] value.op = "$lt" -> node_val.scalar < value.op_val
                      [] value.op = "$gte" -> node_val.scalar >= value.op_val
                      [] value.op = "$lte" -> node_val.scalar <= value.op_val
                      [] value.op = "$ne" -> node_val # Scalar(value.op_val)
                      [] value.op = "$exists" -> \/ value.op_val /\ node_val # Null
                                                 \/ ~value.op_val /\ node_val = Null
                      [] OTHER -> FALSE,
                  raised |-> FALSE]
       ELSE [matched |-> node_val = value, raised |-> FALSE]

\* query_across_graphs, lines 171-178: the filter evaluated key by key on the
\* data of a node; the node is a start node when every key matches
MatchNode(record, query_filter) ==
    LET evaluated == [key \in DOMAIN query_filter |->
                         evaluate_filter(record, key, query_filter[key])]
    IN [evaluated |-> evaluated,
        match |-> \A key \in DOMAIN query_filter : evaluated[key].matched,
        raised |-> \E key \in DOMAIN query_filter : evaluated[key].raised]

-----------------------------------------------------------------------------
(* The filter as a state machine: the data of a node, then a filter on it *)

FilterInts == (0 - MaxInt)..MaxInt
FilterKeys == {<<"b">>, <<"c">>}

\* node['data']: some of the keys, each with an integer or None
NodeData == UNION {[keys -> {Null} \cup {Scalar(n) : n \in FilterInts}] :
                      keys \in SUBSET FilterKeys}

\* the values of a filter: an integer, a comparison with an integer, $exists
\* with a boolean, an operator that is not supported
FilterValues ==
    {Scalar(n) : n \in FilterInts}
    \cup {Operator(op, n) : op \in {"$gt", "$lt", "$gte", "$lte", "$ne", "$in", "$regex"},
                            n \in FilterInts}
    \cup {Operator("$exists", b) : b \in BOOLEAN}

\* query_filter: one or two keys, each with a value
NodeFilters == UNION {[keys -> FilterValues] : keys \in (SUBSET FilterKeys) \ {{}}}

InitFilter ==
    /\ build = [pc |-> "idle"]
    /\ frame = [pc |-> "idle"]
    /\ schemas = <<>>
    /\ nodes = <<>>
    /\ edges = <<>>
    /\ cache = <<>>
    /\ builds = 0
    /\ lastSchemas = <<>>
    /\ prevSchemas = <<>>
    /\ prevNodes = <<>>
    /\ prevEdges = <<>>
    /\ data \in NodeData
    /\ query = NoQuery
    /\ result = ReturnNone

\* the filter loop of query_across_graphs on the data of one node
match_node ==
    /\ query = NoQuery
    /\ \E query_filter \in NodeFilters :
          /\ query' = [action |-> "query_across_graphs", filter |-> query_filter]
          /\ result' = MatchNode(data, query_filter)
    /\ UNCHANGED <<schemas, nodes, edges, cache, builds, lastSchemas, prevSchemas,
                   prevNodes, prevEdges, data, build, frame>>

NextFilter == match_node

SpecFilter == InitFilter /\ [][NextFilter]_vars

-----------------------------------------------------------------------------
(* data_manager.py: the write step of ingestion *)

\* data_models.find_schema_for_entity: the declaration with the label in the
\* registry, <<>> when there is none
find_schema_for_entity(registry, entity_label) ==
    LET all == AllEntities(registry, 1)
        k == FirstIndex([i \in 1..Len(all) |-> all[i].label = entity_label])
    IN IF k = 0 THEN <<>> ELSE <<all[k]>>

\* record.get(pk_field)
RecordGet(record, field) == IF field \in DOMAIN record THEN record[field] ELSE Null

\* an update that inserts a new document whether or not one matches
InsertOne(coll, filter, record) ==
    Append(coll, [k \in {IdKey} \cup DOMAIN filter \cup DOMAIN record |->
                     IF k = IdKey THEN Scalar(Len(coll) + 1)
                     ELSE IF k \in DOMAIN record THEN record[k] ELSE filter[k]])

\* UpdateOne(filter, {"$set": record}, upsert=True) on a collection: the first
\* document that matches the filter gets the keys of record set; when none
\* matches, a document with a fresh "_id", the filter's keys and the record's
\* is inserted
UpdateOne(coll, filter, record) ==
    LET k == FirstIndex([j \in 1..Len(coll) |-> MatchesFilter(coll[j], filter)])
    IN IF k = 0
       THEN Append(coll, [f \in {IdKey} \cup DOMAIN filter \cup DOMAIN record |->
                             IF f = IdKey THEN Scalar(Len(coll) + 1)
                             ELSE IF f \in DOMAIN record THEN record[f] ELSE filter[f]])
       ELSE [coll EXCEPT ![k] = [f \in DOMAIN coll[k] \cup DOMAIN record |->
                                    IF f \in DOMAIN record THEN record[f] ELSE coll[k][f]]]

\* bulk_write(operations, ordered=False) of the upserts built from parsed_data
\* (lines 158-171): a record whose primary key is None gives no operation; the
\* server applies the operations of the one command one after the other and
\* goes on after a failure
RECURSIVE BulkUpsert(_, _, _)
BulkUpsert(coll, pk_field, parsed_data) ==
    IF parsed_data = <<>> THEN coll
    ELSE LET record == Head(parsed_data)
             pk_value == RecordGet(record, pk_field)
         IN BulkUpsert(IF pk_value # Null
                       THEN UpdateOne(coll, [f \in {pk_field} |-> pk_value], record)
                       ELSE coll,
                       pk_field, Tail(parsed_data))

\* insert_many(parsed_data, ordered=False): every record becomes a document with
\* a fresh "_id"
RECURSIVE InsertMany(_, _)
InsertMany(coll, parsed_data) ==
    IF parsed_data = <<>> THEN coll
    ELSE InsertMany(Append(coll, [f \in {IdKey} \cup DOMAIN Head(parsed_data) |->
                                     IF f = IdKey THEN Scalar(Len(coll) + 1)
                                     ELSE Head(parsed_data)[f]]),
                    Tail(parsed_data))

\* ingest_and_process_file from the parsed records on (lines 134-200): what it
\* returns and the data it leaves.  The store accepts every write.
IngestWrite(registry, ns, es, d, entity_label, parsed_data) ==
    LET pk_field == find_primary_key_field_by_label(ns, es, entity_label)
        coll == GetDataCollection(d, entity_label)
        written == IF pk_field # NoneV THEN BulkUpsert(coll, pk_field, parsed_data)
                   ELSE InsertMany(coll, parsed_data)
    IN IF find_schema_for_entity(registry, entity_label) = <<>>
       THEN [returned |-> FALSE, data |-> d]
       ELSE IF parsed_data = <<>> THEN [returned |-> TRUE, data |-> d]
       ELSE [returned |-> TRUE,
             data |-> [l \in DOMAIN d \cup {entity_label} |->
                          IF l = entity_label THEN written ELSE d[l]]]

-----------------------------------------------------------------------------
(* Ingestion as a state machine: a built graph, empty collections, ingests *)

MaxBatch == 2        \* records in a parsed file
MaxIngests == 3      \* calls of ingest_and_process_file in a behaviour

\* the registry ingested into: table a with the primary key b and the column
\* c, table t with the column c and no primary key
IngestRegistry ==
    <<Source("UniversityDB", "relational",
        <<[type |-> "table", label |-> <<"a">>, fields |-> <<>>,
           columns |-> <<FieldDecl(<<"b">>, TRUE, FALSE, NoneV),
                         FieldDecl(<<"c">>, FALSE, FALSE, NoneV)>>],
          [type |-> "table", label |-> <<"t">>, fields |-> <<>>,
           columns |-> <<FieldDecl(<<"c">>, FALSE, FALSE, NoneV)>>]>>)>>

\* the records _parse_csv gives for an entity: every column of the entity,
\* with a value or None
ParsedRecords(entity_label) ==
    IF entity_label = <<"a">>
    THEN {[f \in {<<"b">>, <<"c">>} |-> IF f = <<"b">> THEN b ELSE c] :
             b \in {Null, Scalar(0), Scalar(1)}, c \in {Scalar(0), Scalar(1)}}
    ELSE {[f \in {<<"c">>} |-> c] : c \in {Null, Scalar(0)}}

ParsedData(entity_label) == SeqsUpTo(ParsedRecords(entity_label), MaxBatch)

InitIngest ==
    /\ build = [pc |-> "idle"]
    /\ frame = [pc |-> "idle"]
    /\ schemas = IngestRegistry
    /\ LET st == BuildGraph(<<>>, <<>>, <<>>, schemas)
       IN /\ nodes = st.nodes
          /\ edges = st.edges
          /\ cache = st.cache
    /\ builds = 1
    /\ lastSchemas = schemas
    /\ prevSchemas = <<>>
    /\ prevNodes = <<>>
    /\ prevEdges = <<>>
    /\ data = [l \in {<<"a">>, <<"t">>} |-> <<>>]
    /\ query = NoQuery
    /\ result = [returned |-> TRUE, before |-> <<>>, repeated |-> FALSE, ingests |-> 0]

\* DataManager.ingest_and_process_file(entity_label, file_path) for a file that
\* parses to parsed_data.  result keeps the collection as it was before the
\* call, and whether the call before was for the same entity and the same file.
ingest_and_process_file ==
    /\ result.ingests < MaxIngests
    /\ \E entity_label \in {<<"a">>, <<"t">>, GhostLabel} :
          \E parsed_data \in ParsedData(entity_label) :
             LET out == IngestWrite(schemas, nodes, edges, data, entity_label, parsed_data)
             IN /\ data' = out.data
                /\ query' = [action |-> "ingest", entity |-> entity_label,
                             parsed_data |-> parsed_data]
                /\ result' = [returned |-> out.returned,
                              before |-> GetDataCollection(data, entity_label),
                              repeated |-> /\ query.action = "ingest"
                                           /\ query.entity = entity_label
                                           /\ query.parsed_data = parsed_data,
                              ingests |-> result.ingests + 1]
    /\ UNCHANGED <<schemas, nodes, edges, cache, builds, lastSchemas, prevSchemas,
                   prevNodes, prevEdges, build, frame>>

NextIngest == ingest_and_process_file

SpecIngest == InitIngest /\ [][NextIngest]_vars

-----------------------------------------------------------------------------
(* Several queries on one DataManager *)

MaxCalls == 2        \* calls of retrieve_data in a behaviour

\* the data queried: one or two documents in a, one in t and one in u
CallsData ==
    {[name \in {<<"a">>, <<"t">>, <<"u">>} |->
         IF name = <<"a">> THEN ca
         ELSE IF name = <<"t">>
         THEN <<ScalarDocument(1, [k \in {<<"c">>, <<"d">>} |-> 0])>>
         ELSE <<ScalarDocument(1, [k \in {<<"b">>} |-> 0])>>] :
        ca \in {c \in CollectionsA : c # <<>> /\ c[1][<<"b">>] = Scalar(0)}}

\* the queries of the calls: get_related from a or from an unknown entity over
\* no hop, one hop or two, and get_entity of a or of an unknown entity
CallsQueries ==
    {q \in RelatedQueries :
        /\ q.start_entity \in {<<"a">>, GhostLabel}
        /\ q.start_filters = <<>>
        /\ q.relations \in {<<>>, <<Hop(<<"t">>, "in")>>,
                             <<Hop(<<"t">>, "in"), Hop(<<"u">>, "out")>>}
        /\ DOMAIN q.final_fields = {<<"a">>, <<"u">>}}
    \cup {q \in EntityQueries :
             /\ q.action = "get_entity"
             /\ q.entity \in {<<"a">>, GhostLabel}
             /\ q.filters = <<>>}

\* what a call did, with the number of calls made so far on the DataManager
WithCalls(out, n) ==
    [ok |-> out.ok, records |-> out.records, reads |-> out.reads,
     store_raised |-> out.store_raised, raised |-> out.raised, calls |-> n]

InitCalls ==
    /\ build = [pc |-> "idle"]
    /\ frame = [pc |-> "idle"]
    /\ schemas \in RelatedRegistries
    /\ LET st == BuildGraph(<<>>, <<>>, <<>>, schemas)
       IN /\ nodes = st.nodes
          /\ edges = st.edges
          /\ cache = st.cache
    /\ builds = 1
    /\ lastSchemas = schemas
    /\ prevSchemas = <<>>
    /\ prevNodes = <<>>
    /\ prevEdges = <<>>
    /\ data \in CallsData
    /\ query = NoQuery
    /\ result = WithCalls(ReturnNone, 0)

\* DataManager.retrieve_data, called again on the same DataManager.  The call
\* reads self.nodes_collection, self.edges_collection and the data collections
\* with find and find_one, and assigns no attribute of the DataManager.
retrieve_data_again ==
    /\ result.calls < MaxCalls
    /\ \E query_details \in CallsQueries, fails_at \in {0, 1, 2} :
          /\ query' = query_details
          /\ result' = WithCalls(retrieve_data_result(nodes, edges, data, query_details,
                                                      fails_at),
                                 result.calls + 1)
    /\ UNCHANGED <<schemas, nodes, edges, cache, builds, lastSchemas, prevSchemas,
                   prevNodes, prevEdges, data, build, frame>>

NextCalls == retrieve_data_again

SpecCalls == InitCalls /\ [][NextCalls]_vars

-----------------------------------------------------------------------------
(* A rebuild of the graph while a get_related query runs *)

\* the queries of the race: from a to t, or on to u, with explicit final_fields
RaceQueries ==
    {q \in RelatedQueries :
        /\ q.start_entity = <<"a">>
        /\ q.start_filters = <<>>
        /\ q.relations \in {<<Hop(<<"t">>, "in")>>,
                             <<Hop(<<"t">>, "in"), Hop(<<"u">>, "out")>>}
        /\ DOMAIN q.final_fields \in {{<<"a">>, <<"u">>}, {<<"a">>, <<"t">>, <<"u">>}}
        /\ \A l \in DOMAIN q.final_fields : q.final_fields[l].given}

\* The graph of an earlier build of the same registry is stored, the data is
\* loaded, and build_graph_from_schema has been called (it is about to clear the
\* graph); no query has been made.
InitRace ==
    /\ schemas = RelatedRegistry(<<"a">>, <<"u">>, TRUE)
    /\ LET st == BuildGraph(<<>>, <<>>, <<>>, schemas)
       IN /\ nodes = st.nodes
          /\ edges = st.edges
          /\ cache = st.cache
          /\ prevNodes = st.nodes
          /\ prevEdges = st.edges
    /\ builds = 1
    /\ lastSchemas = schemas
    /\ prevSchemas = schemas
    /\ data \in CallsData
    /\ query = NoQuery
    /\ result = ReturnNone
    /\ build = [pc |-> "clear_nodes", i |-> 1, j |-> 1, k |-> 1, todo |-> <<>>]
    /\ frame = [pc |-> "idle"]

\* MetadataManager.build_graph_from_schema, one store operation (delete_many,
\* GraphNode.save, GraphEdge.save) or one loop test at a time.  build.i, build.j,
\* build.k: the source, the entity (in pass 2: the entry of
\* entity_nodes_to_process_fk) and the field the build has come to.
build_step ==
    /\ build.pc \notin {"idle", "done"}
    /\ LET source_schema == schemas[build.i]
           entity == source_schema.entities[build.j]
           entity_node == GraphNode(EntityNodeId(entity.label), "collection", entity.label,
                              [source_system_type |-> source_schema.source_type,
                               original_entity_type |-> entity.type],
                              source_schema.source_name, entity.label, "0")
           field == EntityFields(entity)[build.k]
           field_node == GraphNode(FieldNodeId(entity_node.id, field.label), "field",
                                   field.label, FieldProps(field), "", NoneV, "0")
           todo == build.todo[build.j]
       IN CASE build.pc = "clear_nodes" ->
                 /\ nodes' = <<>>
                 /\ build' = [build EXCEPT !.pc = "clear_edges"]
                 /\ UNCHANGED <<edges, cache, builds>>
            [] build.pc = "clear_edges" ->
                 /\ edges' = <<>>
                 /\ cache' = <<>>
                 /\ build' = [build EXCEPT !.pc = "entity"]
                 /\ UNCHANGED <<nodes, builds>>
            [] build.pc = "entity" /\ build.i > Len(schemas) ->
                 /\ build' = [build EXCEPT !.pc = "references", !.j = 1, !.k = 1]
                 /\ UNCHANGED <<nodes, edges, cache, builds>>
            [] build.pc = "entity" /\ build.i <= Len(schemas)
                                   /\ build.j > Len(source_schema.entities) ->
                 /\ build' = [build EXCEPT !.i = @ + 1, !.j = 1]
                 /\ UNCHANGED <<nodes, edges, cache, builds>>
            [] build.pc = "entity" /\ build.i <= Len(schemas)
                                   /\ build.j <= Len(source_schema.entities) ->
                 /\ nodes' = GraphNode_save(nodes, entity_node)
                 /\ cache' = CachePut(cache, entity.label, entity_node.id)
                 /\ build' = [build EXCEPT !.pc = "field", !.k = 1,
                                           !.todo = Append(@, [entity_node |-> entity_node,
                                                               entity_schema |-> entity])]
                 /\ UNCHANGED <<edges, builds>>
            [] build.pc = "field" /\ build.k > Len(EntityFields(entity)) ->
                 /\ build' = [build EXCEPT !.pc = "entity", !.j = @ + 1]
                 /\ UNCHANGED <<nodes, edges, cache, builds>>
            [] build.pc = "field" /\ build.k <= Len(EntityFields(entity)) ->
                 /\ nodes' = GraphNode_save(nodes, field_node)
                 /\ build' = [build EXCEPT !.pc = "has_field"]
                 /\ UNCHANGED <<edges, cache, builds>>
            [] build.pc = "has_field" ->
                 /\ edges' = GraphEdge_save(edges, GraphEdge(entity_node.id, field_node.id,
                                                             "HAS_FIELD", NoneV))
                 /\ build' = [build EXCEPT !.pc = "field", !.k = @ + 1]
                 /\ UNCHANGED <<nodes, cache, builds>>
            [] build.pc = "references" /\ build.j > Len(build.todo) ->
                 /\ build' = [build EXCEPT !.pc = "done"]
                 /\ builds' = builds + 1
                 /\ UNCHANGED <<nodes, edges, cache>>
            [] build.pc = "references" /\ build.j <= Len(build.todo)
                                       /\ build.k > Len(EntityFields(todo.entity_schema)) ->
                 /\ build' = [build EXCEPT !.j = @ + 1, !.k = 1]
                 /\ UNCHANGED <<nodes, edges, cache, builds>>
            [] build.pc = "references" /\ build.j <= Len(build.todo)
                                       /\ build.k <= Len(EntityFields(todo.entity_schema)) ->
                 /\ edges' = FkStep([edges |-> edges, cache |-> cache], todo.entity_node,
                                    EntityFields(todo.entity_schema)[build.k]).edges
                 /\ build' = [build EXCEPT !.k = @ + 1]
                 /\ UNCHANGED <<nodes, cache, builds>>
    /\ UNCHANGED <<schemas, lastSchemas, prevSchemas, prevNodes, prevEdges, data, query,
                   result, frame>>

\* DataManager.retrieve_data is called with a get_related query
retrieve_data_begin ==
    /\ frame.pc = "idle"
    /\ query' \in RaceQueries
    /\ frame' = [pc |-> "start", i |-> 1, gap_hops |-> {}]
    /\ UNCHANGED <<schemas, nodes, edges, cache, builds, lastSchemas, prevSchemas,
                   prevNodes, prevEdges, data, result, build>>

\* DataManager._retrieve_related_data, one phase at a time, each phase reading
\* the graph as it is stored when the phase runs: the start (lines 477-502), one
\* iteration of the traversal loop (508-536), the start of the join (540-556),
\* one iteration of the join loop (558-591), the cleaning (594-616).  The data
\* collections do not change, so a phase's data read is part of the phase.
\* frame.gap_hops (history): the hops whose link resolution of lines 493 and 520
\* ran after pass 1 of the build and before pass 2 saved a REFERENCES edge.
retrieve_related_step ==
    /\ frame.pc \notin {"idle", "returned"}
    /\ LET start_entity_label == query.start_entity
           relations == query.relations
           final_fields == query.final_fields
           in_gap == /\ build.pc = "references"
                     /\ \A j \in 1..Len(edges) : edges[j].relation # "REFERENCES"
           resolves == frame.pc = "start" \/ frame.tr.current_entity_node_id # NoneV
           gap_hops == frame.gap_hops \cup (IF in_gap /\ resolves THEN {frame.i} ELSE {})
           Return(out) == /\ result' = out
                          /\ frame' = [frame EXCEPT !.pc = "returned"]
           s == find_entity_node(nodes, start_entity_label)
           first_link_info == get_relationship_link_fields(nodes, edges, nodes[s].id,
                                                           relations[1])
           current_data ==
               Find(GetDataCollection(data, nodes[s].collection_name), query.start_filters,
                    WithLinkFields(
                        build_projection(FinalFieldsGet(final_fields, start_entity_label),
                                         get_entity_fields(nodes, edges, nodes[s].id)),
                        IF first_link_info.resolved THEN {first_link_info.start_field}
                        ELSE {}))
           tr == TraverseHop(nodes, edges, data, relations, final_fields, frame.tr, frame.i, 0)
           expected_headers == get_expected_headers(nodes, final_fields, relations,
                                                    start_entity_label)
           first_link_info_join == get_relationship_link_fields(nodes, edges,
                                       frame.start_node_id, relations[1])
           start_docs == frame.tr.processed_results[start_entity_label]
           start_records ==
               [j \in 1..Len(start_docs) |->
                   Prefixed(<<>>, start_entity_label, start_docs[j],
                            get_fields_scope(nodes, edges, final_fields, start_entity_label,
                                             frame.start_node_id),
                            first_link_info_join.start_field)]
           js == JoinStep(nodes, edges, relations, final_fields, frame.tr.processed_results,
                          frame.js, frame.i)
       IN CASE frame.pc = "start" ->
                 IF s = 0 \/ nodes[s].collection_name = NoneV THEN Return(ReturnNone)
                 ELSE IF ~first_link_info.resolved
                 THEN /\ result' = ReturnNone
                      /\ frame' = [frame EXCEPT !.pc = "returned", !.gap_hops = gap_hops]
                 ELSE IF NoStartingData(current_data)
                 THEN Return(Outcome(TRUE, <<>>, <<nodes[s].collection_name>>, FALSE))
                 ELSE /\ frame' = [pc |-> "hop", i |-> 1, gap_hops |-> gap_hops,
                                   start_node_id |-> nodes[s].id,
                                   tr |-> [processed_results |->
                                              [l \in {start_entity_label} |-> current_data],
                                           current_entity_label |-> start_entity_label,
                                           current_entity_node_id |-> nodes[s].id,
                                           reads |-> <<nodes[s].collection_name>>,
                                           error |-> FALSE,
                                           store_raised |-> FALSE],
                                   js |-> <<>>]
                      /\ UNCHANGED result
            [] frame.pc = "hop" ->
                 IF tr.error THEN Return(Outcome(FALSE, <<>>, tr.reads, FALSE))
                 ELSE /\ frame' = [frame EXCEPT
                                     !.pc = IF frame.i = Len(relations) THEN "join_start"
                                            ELSE "hop",
                                     !.i = IF frame.i = Len(relations) THEN 1 ELSE @ + 1,
                                     !.gap_hops = gap_hops,
                                     !.tr = tr]
                      /\ UNCHANGED result
            [] frame.pc = "join_start" ->
                 IF start_docs = <<>>
                 THEN Return(Outcome(~expected_headers.raised, <<>>, frame.tr.reads, FALSE))
                 ELSE /\ frame' = [frame EXCEPT
                                     !.pc = "join",
                                     !.js = [joined |-> SelectSeq(start_records,
                                                            LAMBDA r : DOMAIN r # {}),
                                             last_entity_label |-> start_entity_label,
                                             last_entity_node_id |-> frame.start_node_id,
                                             done |-> FALSE,
                                             error |-> FALSE]]
                      /\ UNCHANGED result
            [] frame.pc = "join" ->
                 IF js.error THEN Return(Outcome(FALSE, <<>>, frame.tr.reads, FALSE))
                 ELSE /\ frame' = [frame EXCEPT
                                     !.pc = IF js.done \/ frame.i = Len(relations)
                                            THEN "clean" ELSE "join",
                                     !.i = @ + 1,
                                     !.js = js]
                      /\ UNCHANGED result
            [] frame.pc = "clean" ->
                 IF expected_headers.raised
                 THEN Return(Outcome(FALSE, <<>>, frame.tr.reads, FALSE))
                 ELSE Return(Outcome(TRUE, CleanResults(frame.js.joined,
                                                        expected_headers.headers),
                                     frame.tr.reads, FALSE))
    /\ UNCHANGED <<schemas, nodes, edges, cache, builds, lastSchemas, prevSchemas,
                   prevNodes, prevEdges, data, query, build>>

NextRace == build_step \/ retrieve_data_begin \/ retrieve_related_step

SpecRace == InitRace /\ [][NextRace]_vars

-----------------------------------------------------------------------------
(* Traversals that come back to the start entity *)

\* get_related queries from a or t, filtered or not, whose path visits the start
\* entity or t a second time; every entity's fields are listed in final_fields
RevisitQueries ==
    {[action |-> "get_related", start_entity |-> start_entity,
      start_filters |-> start_filters, relations |-> relations,
      final_fields |-> [l \in {<<"a">>, <<"t">>, <<"u">>} |->
                          IF l = <<"t">> THEN FieldList(<<<<"c">>, <<"d">>>>)
                          ELSE FieldList(<<<<"b">>>>)]] :
        start_entity \in {<<"a">>, <<"t">>},
        start_filters \in {<<>>, [k \in {<<"b">>} |-> Scalar(0)],
                           [k \in {<<"d">>} |-> Scalar(0)]},
        relations \in {<<Hop(<<"t">>, "in"), Hop(<<"a">>, "out")>>,
                       <<Hop(<<"a">>, "out"), Hop(<<"t">>, "in")>>,
                       <<Hop(<<"u">>, "out"), Hop(<<"t">>, "in")>>,
                       <<Hop(<<"t">>, "in"), Hop(<<"u">>, "out"), Hop(<<"t">>, "in")>>}}

\* DataManager.retrieve_data with one of these queries
retrieve_data_revisit ==
    /\ query = NoQuery
    /\ \E query_details \in RevisitQueries :
          /\ query' = query_details
          /\ result' = retrieve_data_result(nodes, edges, data, query_details, 0)
    /\ UNCHANGED <<schemas, nodes, edges, cache, builds, lastSchemas, prevSchemas,
                   prevNodes, prevEdges, data, build, frame>>

NextRevisit == retrieve_data_revisit

SpecRevisit == InitRelated /\ [][NextRevisit]_vars

-----------------------------------------------------------------------------
(* Link resolution between two entities that may reference each other *)

\* the registries: the tables a (b, d) and t (b, c), declared in either order,
\* where a.d may be a foreign key to t, t.c one to a, and each b may be the
\* primary key
LinkRegistry(a_first, a_pk, t_pk, d_references, c_references) ==
    LET a == [type |-> "table", label |-> <<"a">>, fields |-> <<>>,
              columns |-> <<FieldDecl(<<"b">>, a_pk, FALSE, NoneV),
                            FieldDecl(<<"d">>, FALSE, d_references # NoneV, d_references)>>]
        t == [type |-> "table", label |-> <<"t">>, fields |-> <<>>,
              columns |-> <<FieldDecl(<<"b">>, t_pk, FALSE, NoneV),
                            FieldDecl(<<"c">>, FALSE, c_references # NoneV, c_references)>>]
    IN <<Source("UniversityDB", "relational", IF a_first THEN <<a, t>> ELSE <<t, a>>)>>

\* The graph of such a registry is built; no link has been resolved.
InitLink ==
    /\ build = [pc |-> "idle"]
    /\ frame = [pc |-> "idle"]
    /\ \E a_first, a_pk, t_pk \in BOOLEAN :
          \E d_references \in {NoneV, <<"t">>}, c_references \in {NoneV, <<"a">>} :
             schemas = LinkRegistry(a_first, a_pk, t_pk, d_references, c_references)
    /\ LET st == BuildGraph(<<>>, <<>>, <<>>, schemas)
       IN /\ nodes = st.nodes
          /\ edges = st.edges
          /\ cache = st.cache
    /\ builds = 1
    /\ lastSchemas = schemas
    /\ prevSchemas = <<>>
    /\ prevNodes = <<>>
    /\ prevEdges = <<>>
    /\ data = <<>>
    /\ query = NoQuery
    /\ result = NoLink

\* DataManager._get_relationship_link_fields, called for a hop between a and t
\* from either side, with a direction "out", "in", another word, or none
resolve_link ==
    /\ query = NoQuery
    /\ \E start \in {<<"a">>, <<"t">>}, direction \in {"out", "in", "both", ""} :
          LET rel_info == Hop(IF start = <<"a">> THEN <<"t">> ELSE <<"a">>, direction)
          IN /\ query' = [action |-> "resolve_link", start_entity |-> start,
                          rel_info |-> rel_info]
             /\ result' = get_relationship_link_fields(nodes, edges, EntityNodeId(start),
                                                       rel_info)
    /\ UNCHANGED <<schemas, nodes, edges, cache, builds, lastSchemas, prevSchemas,
                   prevNodes, prevEdges, data, build, frame>>

NextLink == resolve_link

SpecLink == InitLink /\ [][NextLink]_vars

-----------------------------------------------------------------------------
(* What the claims speak about *)

Declared == AllEntities(lastSchemas, 1)
DeclaredLabels == {Declared[i].label : i \in 1..Len(Declared)}

NodeSet(ns) == Range(ns)
EdgeSet(es) == Range(es)

\* the REFERENCES edges as (source, target, on_field)
RefEdges(es) ==
    {[source |-> e.source, target |-> e.target, on_field |-> e.properties.on_field] :
        e \in {x \in Range(es) : x.relation = "REFERENCES"}}

-----------------------------------------------------------------------------
\* C1: building twice in a row from the same registry leaves the nodes and edges
\* collections with the same nodes (ids, properties) and the same
\* (source, target, relation, properties) edges as building once.
C1_BuildIdempotent ==
    (builds >= 2 /\ prevSchemas = lastSchemas) =>
        /\ NodeSet(nodes) = NodeSet(prevNodes)
        /\ EdgeSet(edges) = EdgeSet(prevEdges)
        /\ Len(nodes) = Len(prevNodes)
        /\ Len(edges) = Len(prevEdges)

\* a second build of an unchanged registry whose graph holds a REFERENCES edge
C1_Witness ==
    /\ builds >= 2
    /\ prevSchemas = lastSchemas
    /\ RefEdges(edges) # {}

\* the positions in es of the edges with the given relation, source, target and on_field
EdgeIndices(es, relation, source, target, on_field) ==
    {j \in 1..Len(es) :
        /\ es[j].relation = relation
        /\ es[j].source = source
        /\ es[j].target = target
        /\ es[j].properties.on_field = on_field}

\* the foreign-key fields of entity E whose references names a declared entity
ResolvableFks(E) ==
    {k \in 1..Len(EntityFields(E)) :
        /\ EntityFields(E)[k].is_foreign_key
        /\ EntityFields(E)[k].references \in DeclaredLabels}

\* C2: after a build, for every declared foreign-key field f of an entity E whose
\* references is the label of a declared entity T, the edges collection holds
\* exactly one REFERENCES edge from E's node to T's node with on_field = f's label
\* (also when E declares several foreign keys to the same T).
C2_OneReferencesEdgePerFk ==
    builds >= 1 =>
        \A i \in 1..Len(Declared) : \A k \in ResolvableFks(Declared[i]) :
            LET f == EntityFields(Declared[i])[k]
            IN Cardinality(EdgeIndices(edges, "REFERENCES",
                                       EntityNodeId(Declared[i].label),
                                       EntityNodeId(f.references), f.label)) = 1

\* C3: the field node ids derived for two entities with different labels differ,
\* whatever the entity and field labels are.
C3_FieldIdsDistinctAcrossEntities ==
    builds >= 1 =>
        \A i, j \in 1..Len(Declared) :
            Declared[i].label # Declared[j].label =>
                \A k \in 1..Len(EntityFields(Declared[i])) :
                    \A l \in 1..Len(EntityFields(Declared[j])) :
                        FieldNodeId(EntityNodeId(Declared[i].label),
                                    EntityFields(Declared[i])[k].label)
                        # FieldNodeId(EntityNodeId(Declared[j].label),
                                      EntityFields(Declared[j])[l].label)

\* DataManager.find_entity_node's filter {"label": label, "type": "collection"}
EntityNodesLabelled(ns, label) ==
    {i \in 1..Len(ns) : ns[i].label = label /\ ns[i].type = "collection"}

\* C4: after a build there is exactly one node of type 'collection' for every
\* distinct declared entity label.
C4_OneEntityNodePerLabel ==
    builds >= 1 =>
        \A L \in DeclaredLabels : Cardinality(EntityNodesLabelled(nodes, L)) = 1

\* C5: after a build every field node is the target of exactly one HAS_FIELD
\* edge, and that edge leaves the node of the entity that declared the field.
C5_OneHasFieldEdgePerField ==
    builds >= 1 =>
        \A i \in 1..Len(Declared) : \A k \in 1..Len(EntityFields(Declared[i])) :
            LET entity_id == EntityNodeId(Declared[i].label)
                field_id == FieldNodeId(entity_id, EntityFields(Declared[i])[k].label)
                incoming == {j \in 1..Len(edges) :
                                edges[j].relation = "HAS_FIELD" /\ edges[j].target = field_id}
            IN /\ Cardinality(incoming) = 1
               /\ \A j \in incoming : edges[j].source = entity_id

\* the latest build read the registry of the build before it in another order
Reordered == builds >= 2 /\ prevSchemas # lastSchemas

DistinctLabels(es) == \A i, j \in 1..Len(es) : i # j => es[i].label # es[j].label

\* C6: the set of REFERENCES edges (source, target, on_field) a build produces is
\* the same for every order of declaration of entities with distinct labels.
C6_RefEdgesOrderIndependent ==
    (Reordered /\ DistinctLabels(Declared)) => RefEdges(edges) = RefEdges(prevEdges)

\* the positions (source, entity, field) of the foreign-key fields of registry ss
\* whose references names no declared entity
DanglingFks(ss) ==
    {p \in {<<si, ei, k>> : si \in 1..Len(ss), ei \in 1..MaxEntities, k \in 1..MaxFields} :
        /\ p[2] <= Len(ss[p[1]].entities)
        /\ p[3] <= Len(EntityFields(ss[p[1]].entities[p[2]]))
        /\ LET f == EntityFields(ss[p[1]].entities[p[2]])[p[3]]
               es == AllEntities(ss, 1)
           IN /\ f.is_foreign_key
              /\ f.references # NoneV
              /\ \A i \in 1..Len(es) : es[i].label # f.references}

\* registry ss with the references key of the field at position p removed
WithoutReference(ss, p) ==
    LET entity == ss[p[1]].entities[p[2]]
    IN IF entity.columns # <<>>
       THEN [ss EXCEPT ![p[1]].entities[p[2]].columns[p[3]].references = NoneV]
       ELSE [ss EXCEPT ![p[1]].entities[p[2]].fields[p[3]].references = NoneV]

\* C8: a foreign-key field whose references names no declared entity does not stop
\* the build and gets no REFERENCES edge; the edges, the cache and the nodes are
\* those of the registry in which that field carries no reference, the field's own
\* node apart, which stores the declared references value among its properties.
C8_DanglingReferenceSkipped ==
    builds >= 1 =>
        \A p \in DanglingFks(lastSchemas) :
            LET entity == lastSchemas[p[1]].entities[p[2]]
                field == EntityFields(entity)[p[3]]
                field_id == FieldNodeId(EntityNodeId(entity.label), field.label)
                g == BuildGraph(<<>>, <<>>, <<>>, WithoutReference(lastSchemas, p))
            IN /\ edges = g.edges
               /\ cache = g.cache
               /\ Len(nodes) = Len(g.nodes)
               /\ \A i \in 1..Len(nodes) :
                     \/ nodes[i] = g.nodes[i]
                     \/ /\ nodes[i].id = field_id
                        /\ nodes[i].type = "field"
                        /\ g.nodes[i] = [nodes[i] EXCEPT !.properties.references = NoneV]
               /\ \A e \in Range(edges) : e.relation = "REFERENCES" => e.target # NoneV

\* a built graph of a registry with a dangling foreign key and a resolved one
C8_Witness ==
    /\ builds >= 1
    /\ DanglingFks(lastSchemas) # {}
    /\ RefEdges(edges) # {}

\* the latest build read the registry of the build before it with one entity added
Extended ==
    /\ builds >= 2
    /\ Len(AllEntities(lastSchemas, 1)) = Len(AllEntities(prevSchemas, 1)) + 1
    /\ SubSeq(AllEntities(lastSchemas, 1), 1, Len(AllEntities(prevSchemas, 1)))
         = AllEntities(prevSchemas, 1)

\* the ids of the entity nodes labelled label (find_entity_node of student_multi_db
\* accepts the types table and collection)
EntityIds(ns, label) ==
    {n.id : n \in {x \in Range(ns) : x.label = label /\ x.type \in {"table", "collection"}}}

\* C7: after the registry is extended with a new entity and the graph rebuilt,
\* every entity declared before has the node id it had before the rebuild, and the
\* REFERENCES edges of before are still there with the same source and target ids.
C7_EntityIdsStableAcrossRebuild ==
    Extended =>
        /\ \A i \in 1..Len(AllEntities(prevSchemas, 1)) :
              EntityIds(nodes, AllEntities(prevSchemas, 1)[i].label)
              = EntityIds(prevNodes, AllEntities(prevSchemas, 1)[i].label)
        /\ RefEdges(prevEdges) \subseteq RefEdges(edges)

-----------------------------------------------------------------------------
\* the last call was a get_entity for an entity the metadata graph knows
GetEntityOfKnown ==
    /\ query.action = "get_entity"
    /\ find_entity_node(nodes, query.entity) # 0

\* record r holds keys of document d only, each with d's value
IsProjectionOf(r, d) == \A k \in DOMAIN r : k \in DOMAIN d /\ r[k] = d[k]

\* the documents of coll in which every filtered field equals the filter's value
EqualDocs(coll, filters) ==
    LET AllEqual(d) == \A k \in DOMAIN filters : k \in DOMAIN d /\ d[k] = filters[k]
    IN SelectSeq(coll, AllEqual)

\* C9: for a known entity and a filter that maps fields to scalar values,
\* get_entity returns exactly the documents of the entity's collection in which
\* every filtered field equals the given value, none missing, none extra, in the
\* order of the store.
C9_GetEntityReturnsEqualDocs ==
    (GetEntityOfKnown /\ ~result.store_raised) =>
        LET expected == EqualDocs(GetDataCollection(data, query.entity), query.filters)
        IN /\ result.ok
           /\ Len(result.records) = Len(expected)
           /\ \A j \in 1..Len(expected) : IsProjectionOf(result.records[j], expected[j])

\* C10: for get_entity with fields given as a list that does not contain "_id"
\* (the empty list included) no returned record has the key "_id"; a returned
\* record has it only when the list names it.
C10_NoIdUnlessNamed ==
    (GetEntityOfKnown /\ query.fields.given) =>
        \A j \in 1..Len(result.records) :
            IdKey \in DOMAIN result.records[j] => IdKey \in Range(query.fields.list)

\* get_entity with the empty list of fields returned a record
C10_Witness ==
    /\ GetEntityOfKnown
    /\ query.fields = FieldList(<<>>)
    /\ result.ok
    /\ Len(result.records) >= 1
    /\ \E k \in DOMAIN result.records[1] : k # IdKey

-----------------------------------------------------------------------------
(* The reference join of a traversal query, from the registry and the data *)

\* the last call was a get_related that returned a list of records
GetRelatedReturned == query.action = "get_related" /\ result.ok

\* the declaration of the entity labelled label in the registry the graph was
\* built from (the set is empty when nobody declares it)
DeclaredAs(label) == {Declared[i] : i \in {x \in 1..Len(Declared) : Declared[x].label = label}}

\* the labels of the primary-key fields an entity declares
DeclaredPks(entity) ==
    {EntityFields(entity)[k].label :
        k \in {x \in 1..Len(EntityFields(entity)) : EntityFields(entity)[x].is_primary_key}}

\* the labels of the foreign-key fields of entity that reference label
DeclaredFksTo(entity, label) ==
    {EntityFields(entity)[k].label :
        k \in {x \in 1..Len(EntityFields(entity)) :
                  /\ EntityFields(entity)[x].is_foreign_key
                  /\ EntityFields(entity)[x].references = label}}

\* the pairs (field of X, field of Y) that link a document of X to one of Y: a
\* foreign key of X with the primary key of Y, or the primary key of X with a
\* foreign key of Y
DeclaredLinks(X, Y) ==
    UNION {UNION {({<<fk, pk>> : fk \in DeclaredFksTo(ex, Y), pk \in DeclaredPks(ey)}
                   \cup {<<pk, fk>> : pk \in DeclaredPks(ex), fk \in DeclaredFksTo(ey, X)}) :
                  ey \in DeclaredAs(Y)} : ex \in DeclaredAs(X)}

\* the entity a chain stands on after k hops
PathEntity(k) == IF k = 0 THEN query.start_entity ELSE query.relations[k].target_entity

\* document j of Y is linked to document i of X
Linked(X, i, Y, j) ==
    \E link \in DeclaredLinks(X, Y) :
        /\ link[1] \in DOMAIN data[X][i]
        /\ link[2] \in DOMAIN data[Y][j]
        /\ data[X][i][link[1]] = data[Y][j][link[2]]

\* the chains of k + 1 documents, as the positions of the documents in their
\* collections: a document of the start entity that matches start_filters, then
\* for every hop a document of the hop's target linked to the one before
RECURSIVE Chains(_)
Chains(k) ==
    IF k = 0
    THEN {<<i>> : i \in {x \in 1..Len(GetDataCollection(data, query.start_entity)) :
                            \A f \in DOMAIN query.start_filters :
                                /\ f \in DOMAIN data[query.start_entity][x]
                                /\ data[query.start_entity][x][f] = query.start_filters[f]}}
    ELSE UNION {{Append(ch, j) :
                    j \in {x \in 1..Len(GetDataCollection(data, PathEntity(k))) :
                              Linked(PathEntity(k - 1), ch[k], PathEntity(k), x)}} :
                ch \in Chains(k - 1)}

AllChains == Chains(Len(query.relations))

\* record r holds nothing but values of the documents of chain ch: every key
\* whose value is not None is '<entity>.<field>' for a document of the chain
\* standing on that entity, and holds that document's value of the field
CorrespondsTo(r, ch) ==
    \A key \in DOMAIN r :
        \/ r[key] = Null
        \/ \E k \in 0..(Len(ch) - 1) :
              \E f \in DOMAIN data[PathEntity(k)][ch[k + 1]] :
                  /\ key = PrefixedKey(PathEntity(k), f)
                  /\ r[key] = data[PathEntity(k)][ch[k + 1]][f]

-----------------------------------------------------------------------------
(* The rows of the reference join *)

\* the entities of the query: the start entity and every hop's target
PathEntities == {PathEntity(k) : k \in 0..Len(query.relations)}

\* every hop of the path has a declared link between its two entities
PathLinked ==
    \A k \in 1..Len(query.relations) : DeclaredLinks(PathEntity(k - 1), PathEntity(k)) # {}

\* a get_related query over declared entities, each at most once on the path,
\* every hop with a declared link, every entry of final_fields an explicit
\* list, and the store answered every read
ExplicitJoinQuery ==
    /\ query.action = "get_related"
    /\ PathEntities \subseteq DeclaredLabels
    /\ \A j, k \in 0..Len(query.relations) : j # k => PathEntity(j) # PathEntity(k)
    /\ PathLinked
    /\ \A l \in DOMAIN query.final_fields : query.final_fields[l].given
    /\ ~result.store_raised

\* the requested '<entity>.<field>' keys
RequestedKeys ==
    UNION {{PrefixedKey(l, f) : f \in Range(query.final_fields[l].list)} :
              l \in PathEntities \cap DOMAIN query.final_fields}

\* the row of a chain: every requested key with the value the chain's document
\* of that entity holds for the field, None when it holds none
RowOf(ch) ==
    [key \in RequestedKeys |->
        LET k == CHOOSE x \in 0..(Len(ch) - 1) :
                    \E f \in Range(FinalFieldsGet(query.final_fields, PathEntity(x)).list) :
                        key = PrefixedKey(PathEntity(x), f)
            f == CHOOSE x \in Range(query.final_fields[PathEntity(k)].list) :
                    key = PrefixedKey(PathEntity(k), x)
            doc == data[PathEntity(k)][ch[k + 1]]
        IN IF f \in DOMAIN doc THEN doc[f] ELSE Null]

\* the chains whose row holds a value
ReferenceChains == {ch \in AllChains : \E key \in RequestedKeys : RowOf(ch)[key] # Null}

\* C12: for a path on which every entity appears at most once and a
\* final_fields whose entries are all explicit lists, get_related returns a
\* list with exactly the rows of the reference inner join, one record per chain
\* of linked documents whose requested values are not all None, and no other
\* record.
C12_ExactlyTheJoinRows ==
    ExplicitJoinQuery =>
        /\ result.ok
        /\ \A ch \in ReferenceChains :
              Cardinality({j \in 1..Len(result.records) : result.records[j] = RowOf(ch)})
                  = Cardinality({other \in ReferenceChains : RowOf(other) = RowOf(ch)})
        /\ \A j \in 1..Len(result.records) :
              \E ch \in ReferenceChains : result.records[j] = RowOf(ch)

-----------------------------------------------------------------------------
(* A start that matches nothing *)

\* a get_related query from a declared entity, with no hop or a first hop whose
\* link is declared, when no document of the start entity matches start_filters
\* and the store answered the start read
NothingMatchesStart ==
    /\ query.action = "get_related"
    /\ query.start_entity \in DeclaredLabels
    /\ query.relations # <<>> => DeclaredLinks(query.start_entity, PathEntity(1)) # {}
    /\ Chains(0) = {}
    /\ ~result.store_raised

\* C13: when no start document matches start_filters and the first hop's link
\* resolves, get_related returns the empty list, raises nothing, and has read
\* the start entity's collection and no other.
C13_EmptyStartShortCircuits ==
    NothingMatchesStart =>
        /\ result.ok
        /\ ~result.raised
        /\ result.records = <<>>
        /\ result.reads = <<query.start_entity>>

\* a two-hop query whose filter no start document matches, over a start
\* collection and a first target that hold documents
C13_Witness ==
    /\ NothingMatchesStart
    /\ Len(query.relations) = 2
    /\ query.start_filters # <<>>
    /\ data[query.start_entity] # <<>>
    /\ data[PathEntity(1)] # <<>>
    /\ result.ok

-----------------------------------------------------------------------------
(* A hop whose link cannot be resolved *)

\* hop k of the query has no link to resolve: no foreign key between its two
\* entities has a REFERENCES edge, or the referenced entity declares no primary
\* key
UnresolvedHop(k) == DeclaredLinks(PathEntity(k - 1), PathEntity(k)) = {}

\* a get_related query over declared entities with a hop that has no link, when
\* the store answered every read
SomeHopUnresolved ==
    /\ query.action = "get_related"
    /\ PathEntities \subseteq DeclaredLabels
    /\ \E k \in 1..Len(query.relations) : UnresolvedHop(k)
    /\ ~result.store_raised

\* C14: when the link of a hop cannot be resolved, at whatever position of the
\* path the hop stands, the first included, get_related returns the empty list
\* and raises nothing.
C14_UnresolvedHopGivesEmpty ==
    SomeHopUnresolved =>
        /\ result.ok
        /\ ~result.raised
        /\ result.records = <<>>

-----------------------------------------------------------------------------
(* A final_fields entry of None *)

\* the entities of the path that final_fields maps to None
NullEntities == {l \in PathEntities \cap DOMAIN query.final_fields : ~query.final_fields[l].given}

\* the labels of the fields the registry declares for the entity labelled label
DeclaredFieldLabels(label) ==
    UNION {{EntityFields(e)[k].label : k \in 1..Len(EntityFields(e))} : e \in DeclaredAs(label)}

\* a get_related query over declared entities, every hop with a declared link,
\* whose final_fields maps an entity of the path to None, when the store
\* answered every read
NullRequested ==
    /\ query.action = "get_related"
    /\ PathEntities \subseteq DeclaredLabels
    /\ PathLinked
    /\ NullEntities # {}
    /\ ~result.store_raised

\* C15: when final_fields maps an entity E of the path to None, get_related
\* returns a list of records, and every record has the key 'E.f' for every
\* declared field f of E, holding the value of a document of E that matches
\* the start filter or is linked along the path.
C15_NullMeansAllFields ==
    NullRequested =>
        /\ result.ok
        /\ \A j \in 1..Len(result.records) : \A l \in NullEntities :
              /\ \A f \in DeclaredFieldLabels(l) :
                    PrefixedKey(l, f) \in DOMAIN result.records[j]
              /\ \E ch \in AllChains : CorrespondsTo(result.records[j], ch)

-----------------------------------------------------------------------------
(* A query that names an unknown entity *)

\* the label has no entity node in the metadata graph
Unknown(label) ==
    ~\E i \in 1..Len(nodes) : nodes[i].label = label /\ nodes[i].type = "collection"

\* the number of path entities before the first unknown one (the start entity
\* is the first entity of the path)
KnownPrefix ==
    Cardinality({k \in 0..Len(query.relations) : \A j \in 0..k : ~Unknown(PathEntity(j))})

\* the last call was a get_entity or a get_related that names an unknown label
NamesUnknown ==
    \/ query.action = "get_entity" /\ Unknown(query.entity)
    \/ query.action = "get_related" /\ \E k \in 0..Len(query.relations) : Unknown(PathEntity(k))

\* C16: a query that names a label absent from the metadata graph, as entity,
\* as start_entity or as a hop's target, does not raise; retrieve_data returns
\* None or the empty list, and the only collections read are those of the known
\* entities that come before the unknown label on the path (none for get_entity
\* and for an unknown start_entity).
C16_UnknownLabelNoRaiseNoRead ==
    NamesUnknown =>
        /\ ~result.raised
        /\ ~result.ok \/ result.records = <<>>
        /\ \A j \in 1..Len(result.reads) : ~Unknown(result.reads[j])
        /\ IF query.action = "get_entity" THEN result.reads = <<>>
           ELSE /\ Len(result.reads) <= KnownPrefix
                /\ \A j \in 1..Len(result.reads) : result.reads[j] = PathEntity(j - 1)

\* an unknown label was the target of the second hop of a query whose first hop
\* read documents, and the call returned the empty list
C16_Witness ==
    /\ query.action = "get_related"
    /\ Len(query.relations) = 2
    /\ ~Unknown(PathEntity(0)) /\ ~Unknown(PathEntity(1)) /\ Unknown(PathEntity(2))
    /\ Len(result.reads) = 2
    /\ result.ok
    /\ result.records = <<>>

-----------------------------------------------------------------------------
(* The dispatch of retrieve_data *)

\* the outcomes the two paths can have for the last query, the store failing
\* at any read or at none
EntityOutcomes == {retrieve_single_entity(nodes, edges, data, query, f) : f \in 0..1}
RelatedOutcomes == {retrieve_related_data(nodes, edges, data, query, f) : f \in 0..2}

\* C17: retrieve_data answers get_entity with the outcome of the single-entity
\* path and get_related with the outcome of the traversal path; for any other
\* action, a missing one included, it reads no collection and returns None,
\* which is not the empty list a query that matched nothing returns.
C17_DispatchByAction ==
    /\ query.action = "get_entity" => result \in EntityOutcomes
    /\ query.action = "get_related" => result \in RelatedOutcomes
    /\ query.action \in OtherActions =>
          /\ result.reads = <<>>
          /\ ~result.ok
          /\ ~result.raised

\* a query without an action was answered, on data where get_entity for the
\* same entity would have returned documents
C17_Witness ==
    /\ query.action = NoAction
    /\ query.entity \in DOMAIN data
    /\ data[query.entity] # <<>>
    /\ ~result.ok
    /\ result.reads = <<>>

-----------------------------------------------------------------------------
(* A read that the store fails *)

\* C18: when the store raises on a read of a get_entity or a get_related
\* query, retrieve_data raises to its caller: it returns neither None nor a
\* list.
C18_StoreFailurePropagates ==
    (query.action \in {"get_entity", "get_related"} /\ result.store_raised) =>
        result.raised

-----------------------------------------------------------------------------
(* The reference of the filter *)

\* the last step evaluated a filter on the data of a node
FilterEvaluated == query.action = "query_across_graphs"

\* the field is in the record and is not None
PresentNonNull(key) == key \in DOMAIN data /\ data[key] # Null

\* the comparison op holds between the field and v
Holds(op, key, v) ==
    CASE op = "$gt" -> data[key].scalar > v
      [] op = "$lt" -> data[key].scalar < v
      [] op = "$gte" -> data[key].scalar >= v
      [] op = "$lte" -> data[key].scalar <= v
      [] op = "$ne" -> data[key].scalar # v

\* the reference: whether the value the filter gives for key matches the record
ReferenceMatch(key) ==
    LET value == query.filter[key]
    IN IF ~IsOperator(value) THEN key \in DOMAIN data /\ data[key] = value
       ELSE IF value.op \in {"$gt", "$lt", "$gte", "$lte", "$ne"}
       THEN PresentNonNull(key) /\ Holds(value.op, key, value.op_val)
       ELSE IF value.op = "$exists" THEN PresentNonNull(key) <=> value.op_val
       ELSE FALSE

\* C19: for every record, field and filter value over the bounded integers,
\* _evaluate_filter returns what the reference says (equality for a scalar; for
\* $gt, $lt, $gte, $lte, $ne the field present, not None and the comparison
\* true; for $exists the field present and not None exactly when asked; no
\* match for any other operator) and does not raise.
C19_EvaluateFilterAgrees ==
    FilterEvaluated =>
        \A key \in DOMAIN query.filter :
            /\ result.evaluated[key].matched <=> ReferenceMatch(key)
            /\ ~result.evaluated[key].raised

\* $ne was evaluated on a field the record does not have, and did not match,
\* next to a $gt that matched
C19_Witness ==
    /\ FilterEvaluated
    /\ \E key \in DOMAIN query.filter :
          /\ IsOperator(query.filter[key])
          /\ query.filter[key].op = "$ne"
          /\ key \notin DOMAIN data
          /\ ~result.evaluated[key].matched
    /\ \E key \in DOMAIN query.filter :
          /\ IsOperator(query.filter[key])
          /\ query.filter[key].op = "$gt"
          /\ result.evaluated[key].matched

-----------------------------------------------------------------------------
(* Ingestion is set-or-insert *)

\* the primary-key field the registry declares for the entity labelled label,
\* NoneV when it declares none
DeclaredPk(label) ==
    LET pks == UNION {DeclaredPks(e) : e \in DeclaredAs(label)}
    IN IF pks = {} THEN NoneV ELSE CHOOSE f \in pks : TRUE

\* no two documents of the collection have the same value of field
OnePerValue(coll, field) ==
    \A i, j \in 1..Len(coll) :
        (i # j /\ field \in DOMAIN coll[i] /\ field \in DOMAIN coll[j])
            => coll[i][field] # coll[j][field]

\* the last step ingested a non-empty file for a declared entity
Ingested ==
    /\ query.action = "ingest"
    /\ query.entity \in DeclaredLabels

-----------------------------------------------------------------------------
(* Queries only read *)

\* the outcomes the query can have on the given graph and data, whatever calls
\* came before
FreshOutcomes(ns, es, d, q) ==
    {IF q.action = "get_entity" THEN retrieve_single_entity(ns, es, d, q, f)
     ELSE retrieve_related_data(ns, es, d, q, f) : f \in 0..2}

-----------------------------------------------------------------------------
(* C22 *)

\* pass 1 of the running build is complete (every entity and field node and
\* every HAS_FIELD edge is stored) and pass 2 has saved no REFERENCES edge yet
Pass1DoneOnly ==
    /\ build.pc = "references"
    /\ \A j \in 1..Len(edges) : edges[j].relation # "REFERENCES"
    /\ \A l \in DeclaredLabels : \E j \in 1..Len(nodes) :
          nodes[j].type = "collection" /\ nodes[j].label = l
    /\ \E j \in 1..Len(nodes) : nodes[j].type = "field"

-----------------------------------------------------------------------------
(* C30 *)

\* the hop entities of the query for which final_fields lists fields
RequestedHopEntities ==
    {query.relations[j].target_entity : j \in 1..Len(query.relations)}
    \cap {l \in DOMAIN query.final_fields : query.final_fields[l].list # <<>>}

\* the record holds a value of a requested field of entity l
HasFieldsOf(record, l) ==
    \E f \in Range(query.final_fields[l].list) :
        /\ PrefixedKey(l, f) \in DOMAIN record
        /\ record[PrefixedKey(l, f)] # Null

\* C30: whatever the interleaving of the rebuild with the query, the query
\* returns None, the empty list, or records that hold fields of every hop
\* entity whose fields were requested.
C30_InnerJoinSurvivesRebuild ==
    (frame.pc = "returned" /\ result.ok) =>
        \A j \in 1..Len(result.records) : \A l \in RequestedHopEntities :
            HasFieldsOf(result.records[j], l)

-----------------------------------------------------------------------------
(* C23 *)

\* the documents of the start collection that start_filters selects
StartMatches ==
    SelectSeq(data[query.start_entity], LAMBDA doc : MatchesFilter(doc, query.start_filters))

\* the record's values under the keys '<start entity>.<field>' are those of doc
StartValuesFrom(record, doc) ==
    \A f \in DOMAIN doc \cup {<<"b">>, <<"c">>, <<"d">>} :
        PrefixedKey(query.start_entity, f) \in DOMAIN record =>
            record[PrefixedKey(query.start_entity, f)]
                = (IF f \in DOMAIN doc THEN doc[f] ELSE Null)

\* C23: the start-entity values of every record returned by get_related are
\* those of a document of the start collection that matches start_filters.
C23_RecordsStartFromMatches ==
    (query.action = "get_related" /\ result.ok) =>
        \A j \in 1..Len(result.records) : \E k \in 1..Len(StartMatches) :
            StartValuesFrom(result.records[j], StartMatches[k])

-----------------------------------------------------------------------------
(* C24 *)

\* the REFERENCES edges stored between the two entities of the resolved hop
HopEdges ==
    {e \in RefEdges(edges) :
        {e.source, e.target} = {EntityNodeId(query.start_entity),
                                EntityNodeId(query.rel_info.target_entity)}}

\* C24: when one REFERENCES edge joins the current entity C and the target T,
\* a resolved hop of direction "out" links the edge's on_field in C to T's
\* primary key, and one of direction "in" links C's primary key to the on_field
\* in T, whichever side holds the foreign key.
C24_LinkFollowsDirection ==
    (query.action = "resolve_link" /\ Cardinality(HopEdges) = 1 /\ result.resolved) =>
        LET on_field == (CHOOSE e \in HopEdges : TRUE).on_field
        IN /\ query.rel_info.direction = "out" =>
                 /\ result.start_field = on_field
                 /\ result.target_field = DeclaredPk(query.rel_info.target_entity)
           /\ query.rel_info.direction = "in" =>
                 /\ result.start_field = DeclaredPk(query.start_entity)
                 /\ result.target_field = on_field

-----------------------------------------------------------------------------
(* C29 *)

\* C29: when a REFERENCES edge is stored in each direction between the current
\* entity C and the target T, a resolved hop of direction "out" uses the edge
\* whose source is C (its on_field in C, T's primary key) and one of direction
\* "in" the edge whose source is T (C's primary key, its on_field in T),
\* whichever edge was stored first.
C29_BothEdgesResolvedByDirection ==
    (query.action = "resolve_link" /\ Cardinality(HopEdges) = 2 /\ result.resolved) =>
        LET from_start == CHOOSE e \in HopEdges : e.source = EntityNodeId(query.start_entity)
            from_target == CHOOSE e \in HopEdges : e.target = EntityNodeId(query.start_entity)
        IN /\ query.rel_info.direction = "out" =>
                 /\ result.start_field = from_start.on_field
                 /\ result.target_field = DeclaredPk(query.rel_info.target_entity)
           /\ query.rel_info.direction = "in" =>
                 /\ result.start_field = DeclaredPk(query.start_entity)
                 /\ result.target_field = from_target.on_field

-----------------------------------------------------------------------------
(* C25 *)

\* the expansion of final_fields: '<entity>.<field>' for every listed field, and
\* for every declared field of an entity that final_fields maps to None
FinalFieldsExpansion ==
    UNION {{PrefixedKey(l, f) :
               f \in IF query.final_fields[l].given THEN Range(query.final_fields[l].list)
                     ELSE DeclaredFieldLabels(l)} : l \in DOMAIN query.final_fields}

-----------------------------------------------------------------------------
(* C26 *)

\* chain o comes before chain ch: at the first hop where they differ, o has the
\* document stored earlier
ChainBefore(o, ch) ==
    \E k \in 1..Len(ch) : o[k] < ch[k] /\ \A j \in 1..(k - 1) : o[j] = ch[j]

\* the chains of the reference join in fan-out order: by start document in
\* store order, then by the first hop's document in store order, and so on
OrderedChains ==
    [i \in 1..Cardinality(ReferenceChains) |->
        CHOOSE ch \in ReferenceChains :
            Cardinality({o \in ReferenceChains : ChainBefore(o, ch)}) = i - 1]

-----------------------------------------------------------------------------
(* C27 *)

\* the declarations of label in source i of the registry the graph was built from
DeclaredIn(i, label) ==
    SelectSeq(lastSchemas[i].entities, LAMBDA entity : entity.label = label)

\* both sources declare an entity labelled label
DeclaredInBoth(label) ==
    /\ Len(lastSchemas) = 2
    /\ DeclaredIn(1, label) # <<>>
    /\ DeclaredIn(2, label) # <<>>

\* the stored entity nodes labelled label
EntityNodesOf(label) == {n \in Range(nodes) : n.type = "collection" /\ n.label = label}

\* C27: when both sources declare the same label, the graph holds one entity
\* node for it, with the datasource and properties of the later declaration,
\* HAS_FIELD edges to exactly the fields of the later declaration, and
\* REFERENCES edges on none but foreign keys of the later declaration.
C27_LaterDeclarationReplaces ==
    \A label \in DeclaredLabels :
        (builds >= 1 /\ DeclaredInBoth(label)) =>
            LET last == DeclaredIn(2, label)[Len(DeclaredIn(2, label))]
            IN /\ Cardinality(EntityNodesOf(label)) = 1
               /\ \A n \in EntityNodesOf(label) :
                     /\ n.datasource = lastSchemas[2].source_name
                     /\ n.properties = [source_system_type |-> lastSchemas[2].source_type,
                                        original_entity_type |-> last.type]
                     /\ {e.target : e \in {x \in Range(edges) :
                                              x.relation = "HAS_FIELD" /\ x.source = n.id}}
                          = {FieldNodeId(n.id, EntityFields(last)[k].label) :
                                k \in 1..Len(EntityFields(last))}
                     /\ {e.on_field : e \in {x \in RefEdges(edges) : x.source = n.id}}
                          \subseteq DeclaredFksTo(last, <<"a">>)

-----------------------------------------------------------------------------
(* C28 *)

====
